---- MODULE Spec2Model ----
(***************************************************************************)
(* Model of the MapTab map engine (src/src/utils/utils.js, the MapTab      *)
(* component at lines 501-1329), of the dataStore navigation helper        *)
(* (src/src/stores/dataStore.js) and of HomeView's mount hook              *)
(* (src/src/views/HomeView.vue).                                           *)
(*                                                                         *)
(* Numbers.  Pixels of the container are integers.  A projection scale is  *)
(* kept in twentieths of a pixel (scale20 = 20 * scale), because the mode  *)
(* factors are 1.05 = 21/20 and 0.6 = 12/20.  A projection translate is    *)
(* kept doubled (translate2 = 2 * translate), because it is width/2 and    *)
(* height/2.  Ring values are kept in hundredths of the unit of            *)
(* radiiKm, ring radii in thousandths of a pixel (rounded down).           *)
(* Geographic coordinates are in millionths of a degree.  Time is in       *)
(* milliseconds.                                                           *)
(***************************************************************************)
EXTENDS Integers, Sequences, FiniteSets, TLC

\* ------------------------------------------------------------ constants

maxAttempts == 20

RetryDelayMs == 100

ResizeDebounceMs == 200

HomeViewDelayMs == 100

NavigateRetryMs == 1000

padding == 32

DistanceFactor20 == 21

RadiusFactor20 == 12

earthRadiusMeters == 6371000

BoundaryIndex == 999

RadiusModeDivisor == 10

PiTimes10000 == 31416

TooltipOffset == 12

\* The clock advances by the shortest timer delay of the program.
Quantum == RetryDelayMs

\* Upper bound of the element identities handed out by append().
MaxElements == 8

\* The notifications of one burst are counted up to MaxBurst.
MaxBurst == 2

Min(a, b) == IF a <= b THEN a ELSE b

\* ringConfigurations[mode].radiiKm, in hundredths.
radiiKm(mode) ==
  IF mode = "radius"
  THEN <<6991100, 5823200, 2536200, 2462200, 637100, 605200, 338900, 244000>>
  ELSE <<5791, 10820, 14960, 22790, 77830, 142700, 287100, 450400>>

\* ringConfigurations[mode].names, each by the English name of its planet.
names(mode) ==
  IF mode = "radius"
  THEN <<"Jupiter", "Saturn", "Uranus", "Neptune", "Earth", "Venus", "Mars", "Mercury">>
  ELSE <<"Mercury", "Venus", "Earth", "Mars", "Jupiter", "Saturn", "Uranus", "Neptune">>

\* ringConfigurations[mode].unit, in English.
unit(mode) == IF mode = "radius" THEN "km" ELSE "million km"

\* The own keys of ringConfigurations and of mapScaleFactors.
OwnModes == {"distance", "radius"}

\* Property names every plain object inherits from Object.prototype: a lookup
\* obj[name] yields a function, which is truthy and not nullish.
InheritedKeys == {"constructor"}

\* The arguments the two buttons of the template pass to changeRingMode.
UiModes == {"distance", "radius"}

\* Arguments of changeRingMode as a call of the component's public method:
\* the two modes, a string that is no key at all, an inherited property name.
ApiModes == UiModes \cup {"planets"} \cup InheritedKeys

\* ringConfigurations[mode] is truthy
hasRingConfiguration(mode) == mode \in OwnModes \cup InheritedKeys

\* ------------------------------------------------------------ geography

taiwanCenter == <<120982025, 23973875>>

Tokyo == <<139691700, 35689500>>

Taipei == <<121565400, 25033000>>

\* cityLocations (two of the 163 entries): name |-> coordinates
cityLocations == [Taipei |-> Taipei, Tokyo |-> Tokyo]

CityNames == DOMAIN cityLocations

\* The centers a caller navigates to.
Centers == {taiwanCenter, Tokyo}

\* The initial rotation installed by createMap.
InitialRotate == <<0 - 120982025, 0 - 23973875>>

\* ------------------------------------------------------------ container

Rect(w, h) == [width |-> w, height |-> h]

\* The sizes getBoundingClientRect reports for the mounted map container:
\* collapsed to no height, an ordinary size (the largest whose ring radii,
\* in thousandths of a pixel, stay below 2^31), and a column narrower than
\* twice the padding.
ContainerRects ==
  {Rect(200, 0), Rect(400, 260), Rect(60, 200)}

\* ------------------------------------------------------------ features

Feature(id, iso, adm, nm, NM) ==
  [id |-> id, iso_a3 |-> iso, ADM0_A3 |-> adm, name |-> nm, NAME |-> NM]

FeatTWN == Feature("", "", "TWN", "", "Taiwan")

FeatJPN == Feature("JPN", "", "XXX", "", "Japan")

FeatFJI == Feature("", "", "", "", "Fiji")

Features == {FeatTWN, FeatJPN, FeatFJI}

\* The features arrays a loaded dataset can hold (keys distinct in each).
FeatureCollections == SUBSET Features

\* The datasets the fetch of initMap delivers.
LoadableCollections == {Features}

\* The key function handed to data() by drawWorldMap: the first truthy of
\* id, properties.iso_a3, properties.ADM0_A3, properties.name, properties.NAME.
FeatureKey(f) ==
  IF f.id # "" THEN f.id
  ELSE IF f.iso_a3 # "" THEN f.iso_a3
  ELSE IF f.ADM0_A3 # "" THEN f.ADM0_A3
  ELSE IF f.name # "" THEN f.name
  ELSE f.NAME

FeatureKeys(fs) == {FeatureKey(f) : f \in fs}

\* ------------------------------------------------------------ projection

\* let projection = null.  nullFor holds the cities for whose coordinates
\* projection(coordinates) returns null.
NullProjection ==
  [isNull |-> TRUE, rotate |-> <<0, 0>>, translate2 |-> <<0, 0>>,
   scale20 |-> 0, scaleNaN |-> FALSE, nullFor |-> {}]

\* A number that may be NaN.
Num(v) == [nan |-> FALSE, v |-> v]

NaN == [nan |-> TRUE, v |-> 0]

\* mapScaleFactors[ringMode.value] ?? mapScaleFactors.distance, times 20.  An
\* inherited property is a function: not nullish, and NaN as a factor.
ScaleFactor20(mode) ==
  IF mode = "distance" THEN Num(DistanceFactor20)
  ELSE IF mode = "radius" THEN Num(RadiusFactor20)
  ELSE IF mode \in InheritedKeys THEN NaN
  ELSE Num(DistanceFactor20)

\* Mutant of getScale: the padding is subtracted three times, not twice.
getScaleTriplePadding(rect, mode) ==
  LET availableWidth == rect.width - padding * 3
      availableHeight == rect.height - padding * 3
      baseScale == Min(availableWidth, availableHeight)
      factor == ScaleFactor20(mode)
  IN  IF factor.nan THEN NaN ELSE Num(baseScale * factor.v)

\* getScale(rect), times 20.
getScale(rect, mode) ==
  LET availableWidth == rect.width - padding * 2
      availableHeight == rect.height - padding * 2
      baseScale == Min(availableWidth, availableHeight)
      factor == ScaleFactor20(mode)
  IN  IF factor.nan THEN NaN ELSE Num(baseScale * factor.v)

\* Mutant of SizeIsZero: the size counts as zero only when both are zero.
SizeIsZeroBoth(rect) == rect.width = 0 /\ rect.height = 0

\* rect.width === 0 || rect.height === 0
SizeIsZero(rect) == rect.width = 0 \/ rect.height = 0

\* [width / 2, height / 2], doubled.
Center2(rect) == <<rect.width, rect.height>>

\* Mutant of RotateFor: the rotation is the center, not its negative.
RotateForUnnegated(center) == <<center[1], center[2]>>

\* projection.rotate([-center[0], -center[1]])
RotateFor(center) == <<0 - center[1], 0 - center[2]>>

\* A longitude brought into (-180, 180] degrees.
WrapDeg(x) ==
  IF x > 180000000 THEN x - 360000000
  ELSE IF x <= 0 - 180000000 THEN x + 360000000
  ELSE x

\* d3's rotation of a point: the longitude is shifted by rotate[0]; on the
\* central meridian (lambda = 0) the latitude is shifted by rotate[1].
Rotated(rotate, p) ==
  [lambda |-> WrapDeg(p[1] + rotate[1]), lat |-> p[2], dphi |-> rotate[2]]

\* The rotated point is the pole of the azimuthal projection, where the raw
\* projection yields (0, 0).
IsOrigin(a) == a.lambda = 0 /\ a.lat + a.dphi = 0

\* projection(coordinates): translate + scale * raw(rotated point).
Project(proj, p) ==
  [x2 |-> proj.translate2[1], y2 |-> proj.translate2[2],
   scale20 |-> proj.scale20, nan |-> proj.scaleNaN,
   at |-> Rotated(proj.rotate, p)]

\* The projected point is the point (x2 / 2, y2 / 2) of the screen.
ProjectsTo(sp, x2, y2) ==
  /\ ~sp.nan
  /\ sp.x2 = x2 /\ sp.y2 = y2
  /\ (IsOrigin(sp.at) \/ sp.scale20 = 0)

\* The point (x2 / 2, y2 / 2) of the screen, as a projected point.
ScreenPoint(x2, y2) ==
  [x2 |-> x2, y2 |-> y2, scale20 |-> 0, nan |-> FALSE,
   at |-> [lambda |-> 0, lat |-> 0, dphi |-> 0]]

\* cx and cy of a marker, x and y of a label:
\* projected ? projected[0] : 0 and projected ? projected[1] : 0
MarkerPosition(proj, name) ==
  IF name \in proj.nullFor THEN ScreenPoint(0, 0)
  ELSE Project(proj, cityLocations[name])

\* The parameters path reads when it builds the d attribute of a shape.
PathOf(proj) ==
  [rotate |-> proj.rotate, translate2 |-> proj.translate2,
   scale20 |-> proj.scale20, scaleNaN |-> proj.scaleNaN]

\* ------------------------------------------------------------ rings

\* radiusPx of a ring, in thousandths of a pixel:
\* scale * (adjustedDistanceKm * 1000 / earthRadiusMeters).
RingRadius(scale20, km100, mode) ==
  LET adjusted100 == IF mode = "radius" THEN km100 \div RadiusModeDivisor ELSE km100
  IN  (scale20 * adjusted100) \div ((earthRadiusMeters \div 1000) * 2)

\* earthBoundaryRadiusPx = scale * Math.PI, in thousandths of a pixel.
BoundaryRadius(scale20) == (scale20 * PiTimes10000) \div 200

\* The datum of the ring at position idx (1-based) of the mode's radiiKm.
RingDatum(idx, scale20, mode) ==
  [index |-> idx - 1,
   radiusPx |-> RingRadius(scale20, radiiKm(mode)[idx], mode),
   type |-> mode,
   label |-> names(mode)[idx],
   unit |-> unit(mode),
   originalValue |-> radiiKm(mode)[idx]]

\* rings.push({ index: 999, radiusPx: earthBoundaryRadiusPx, type: 'boundary' })
BoundaryDatum(scale20) ==
  [index |-> BoundaryIndex, radiusPx |-> BoundaryRadius(scale20),
   type |-> "boundary", label |-> "", unit |-> "", originalValue |-> 0]

\* Mutant of RingData: the boundary ring is not pushed.
RingDataNoBoundary(scale20, mode) ==
  [k \in {i - 1 : i \in 1..Len(radiiKm(mode))} |-> RingDatum(k + 1, scale20, mode)]

\* The rings array of drawDistanceRings, as index |-> datum.
RingData(scale20, mode) ==
  LET n == Len(radiiKm(mode))
      keys == {i - 1 : i \in 1..n} \cup {BoundaryIndex}
  IN  [k \in keys |->
         IF k = BoundaryIndex THEN BoundaryDatum(scale20)
         ELSE RingDatum(k + 1, scale20, mode)]

\* ------------------------------------------------------------ the data join

\* Mutant of EnterKeys: every datum enters, bound to an element or not.
EnterKeysAll(old, keys) == keys

\* selection.data(data, key): the keys that enter, update and exit.
EnterKeys(old, keys) == keys \ DOMAIN old

UpdateKeys(old, keys) == keys \cap DOMAIN old

ExitKeys(old, keys) == DOMAIN old \ keys

\* Mutant of ExitRemove: the exit selection stays in the document.
ExitKeep(sel, keys) == sel

\* selection.exit().remove(): the elements left after the exit selection
\* of a join against `keys` is removed.
ExitRemove(sel, keys) == [k \in DOMAIN sel \ ExitKeys(sel, keys) |-> sel[k]]

\* ------------------------------------------------------------ the engine

\* The tooltip has no content yet.  Its content is that of
\* <strong>label</strong><div>value unit</div>, with the note of the 1/10
\* drawing (tenth) in the radius mode.
NoHtml == [label |-> "", value |-> 0, unit |-> "", tenth |-> FALSE]

\* The tooltip has no left and top yet.
NoPosition == <<>>

\* No handler of a pointer event of a ring has run since the rings were
\* last rendered.
NoRing == 0 - 1

\* let svg = null
NullSvg == [isNull |-> TRUE, width |-> 0, height |-> 0]

\* let ringTooltip = null.  A tooltip has its opacity, and swept: it was
\* visible when the code last hid it, and no ring was entered or left since.
NullTooltip ==
  [isNull |-> TRUE, opacity |-> 0, swept |-> FALSE, html |-> NoHtml,
   position |-> NoPosition]

\* A function with no element: an empty selection.
NoElements == [k \in {} |-> 0]

\* No 'map-ready' event was emitted.
NotHanded ==
  [projection |-> FALSE, countries |-> {}, rings |-> {}, markers |-> {}]

\* What there is when emit('map-ready', mapInterface) calls its handler: the
\* projection, and the keys of the country paths, ring circles and markers.
Handed(e) ==
  [projection |-> ~e.projection.isNull,
   countries |-> DOMAIN e.countryPaths,
   rings |-> DOMAIN e.ringCircles,
   markers |-> DOMAIN e.cityMarkers]

\* The engine state of one MapTab instance as setup() leaves it: the
\* variables of the closure (svg, projection, path, zoom, g, ringsGroup,
\* cityGroup, tooltipGroup, ringTooltip, isMapReady), the elements of the
\* SVG (the child groups of the svg in document order, the country paths,
\* the ring circles, the city markers and their labels), the number of
\* 'map-ready' events emitted, what the handler of 'map-ready' found rendered
\* when it ran (handed), the number of elements appended so far, and err: an
\* exception is propagating.
InitialEngine ==
  [svg |-> NullSvg,
   projection |-> NullProjection,
   path |-> FALSE,
   zoom |-> FALSE,
   g |-> FALSE,
   ringsGroup |-> FALSE,
   cityGroup |-> FALSE,
   tooltipGroup |-> FALSE,
   ringTooltip |-> NullTooltip,
   isMapReady |-> FALSE,
   svgChildren |-> <<>>,
   countryPaths |-> NoElements,
   ringCircles |-> NoElements,
   cityMarkers |-> NoElements,
   cityLabels |-> NoElements,
   emitted |-> 0,
   handed |-> NotHanded,
   appended |-> 0,
   pass |-> <<>>,
   lastRing |-> NoRing,
   containerSvgs |-> 0,
   err |-> FALSE]

\* What a function of the component reads besides the engine: the rectangle
\* getBoundingClientRect reports, whether mapContainer.value is an element,
\* ringMode.value and worldData.value.
Ctx(r, container, mode, data) ==
  [rect |-> r, container |-> container, mode |-> mode, worldData |-> data]

\* worldData = ref(null)
NullData == [isNull |-> TRUE, features |-> {}]

Data(fs) == [isNull |-> FALSE, features |-> fs]

\* Mutant of HideTooltip: the tooltip is left as it is.
HideTooltipNever(e) == e

\* ringTooltip.style('opacity', 0), when there is a tooltip
HideTooltip(e) ==
  IF e.ringTooltip.isNull THEN e
  ELSE [e EXCEPT !.ringTooltip.opacity = 0,
                 !.ringTooltip.swept = (@ \/ e.ringTooltip.opacity = 1)]

\* [x + 12, y - 12] for the pointer [x, y] relative to the container.
TooltipPosition(pt) == <<pt[1] + TooltipOffset, pt[2] - TooltipOffset>>

\* Mutant of ringMouseEnter: the handler does not return for the boundary
\* ring.
ringMouseEnterAnyRing(e, k, pt, mode) ==
  LET d == e.ringCircles[k].datum
      seen == [e EXCEPT !.lastRing = k]
  IN  IF e.ringTooltip.isNull THEN seen
      ELSE [seen EXCEPT
              !.ringTooltip.opacity = 1,
              !.ringTooltip.swept = FALSE,
              !.ringTooltip.html = [label |-> d.label, value |-> d.originalValue,
                                    unit |-> d.unit, tenth |-> mode = "radius"],
              !.ringTooltip.position = TooltipPosition(pt),
              !.ringCircles[k].strokeWidth = 2]

\* The mouseenter handler of the ring circle with key k, the pointer at pt.
ringMouseEnter(e, k, pt, mode) ==
  LET d == e.ringCircles[k].datum
      seen == [e EXCEPT !.lastRing = k]
  IN  IF e.ringTooltip.isNull \/ d.type = "boundary" THEN seen
      ELSE [seen EXCEPT
              !.ringTooltip.opacity = 1,
              !.ringTooltip.swept = FALSE,
              !.ringTooltip.html = [label |-> d.label, value |-> d.originalValue,
                                    unit |-> d.unit, tenth |-> mode = "radius"],
              !.ringTooltip.position = TooltipPosition(pt),
              !.ringCircles[k].strokeWidth = 2]

\* Mutant of ringMouseMove: the handler shows the tooltip as well.
ringMouseMoveShows(e, k, pt) ==
  LET d == e.ringCircles[k].datum
      seen == [e EXCEPT !.lastRing = k]
  IN  IF e.ringTooltip.isNull \/ d.type = "boundary" THEN seen
      ELSE [seen EXCEPT !.ringTooltip.position = TooltipPosition(pt),
                        !.ringTooltip.opacity = 1]

\* The mousemove handler of the ring circle with key k.
ringMouseMove(e, k, pt) ==
  LET d == e.ringCircles[k].datum
      seen == [e EXCEPT !.lastRing = k]
  IN  IF e.ringTooltip.isNull \/ d.type = "boundary" THEN seen
      ELSE [seen EXCEPT !.ringTooltip.position = TooltipPosition(pt)]

\* The mouseleave handler of the ring circle with key k.
ringMouseLeave(e, k) ==
  LET d == e.ringCircles[k].datum
      seen == [e EXCEPT !.lastRing = k]
      hidden == IF seen.ringTooltip.isNull THEN seen
                ELSE [seen EXCEPT !.ringTooltip.opacity = 0,
                                  !.ringTooltip.swept = FALSE]
  IN  [hidden EXCEPT !.ringCircles[k].strokeWidth =
                       IF d.type = "boundary" THEN 2 ELSE 1]

\* Mutant of UpdatePaths: the paths keep the d they have.
UpdatePathsStale(e) == e

\* g.selectAll('path.country').attr('d', path)
UpdatePaths(e) ==
  [e EXCEPT !.countryPaths =
     [k \in DOMAIN e.countryPaths |->
        [e.countryPaths[k] EXCEPT !.d = PathOf(e.projection)]],
            !.pass = Append(@, "basemap")]

\* The ring circles after the join of drawDistanceRings against `rings`
\* (index |-> datum): an entering circle is appended, every entering or
\* updated circle gets its datum, cx, cy, r, stroke and stroke-width, and the
\* exit selection is removed.
JoinRings(e, rings, c) ==
  LET old == e.ringCircles
      keys == DOMAIN rings
      attrs(k) ==
        [el |-> IF k \in DOMAIN old THEN old[k].el ELSE e.appended + 1,
         datum |-> rings[k],
         cx2 |-> c.rect.width,
         cy2 |-> c.rect.height,
         r |-> rings[k].radiusPx,
         stroke |-> IF rings[k].type = "boundary" THEN "#666666"
                    ELSE IF c.mode = "radius" THEN "#8be9fd" ELSE "#cccccc",
         strokeWidth |-> IF rings[k].type = "boundary" THEN 2 ELSE 1,
         pointerEvents |-> IF rings[k].type = "boundary" THEN "none"
                           ELSE "visibleStroke"]
      merged == [k \in EnterKeys(old, keys) \cup UpdateKeys(old, keys) \cup ExitKeys(old, keys) |->
                   IF k \in keys THEN attrs(k) ELSE old[k]]
  IN  [e EXCEPT
         !.ringCircles = ExitRemove(merged, keys),
         !.appended = IF EnterKeys(old, keys) = {} THEN @ ELSE @ + 1]

\* drawDistanceRings()
drawDistanceRings(e, c) ==
  IF e.err THEN e
  ELSE IF e.svg.isNull \/ e.projection.isNull \/ ~c.container THEN e
  ELSE
    LET e1 == [HideTooltip(e) EXCEPT !.pass = Append(@, "rings"),
                                     !.lastRing = NoRing]
        e2 == IF e1.ringsGroup THEN e1
              ELSE [e1 EXCEPT !.ringsGroup = TRUE,
                              !.svgChildren = Append(@, "distance-rings")]
    IN  IF c.mode \in InheritedKeys
        THEN \* selectedConfig is a function: selectedConfig.radiiKm.map throws
             [e1 EXCEPT !.err = TRUE]
        ELSE JoinRings(e2, RingData(e.projection.scale20, c.mode), c)

\* The markers and labels after the two joins of drawCityMarkers.
JoinMarkers(e) ==
  LET oldM == e.cityMarkers
      oldL == e.cityLabels
      keys == CityNames
      enterM == EnterKeys(oldM, keys) # {}
      afterM == IF enterM THEN e.appended + 1 ELSE e.appended
      enterL == EnterKeys(oldL, keys) # {}
      marker(k) ==
        [el |-> IF k \in DOMAIN oldM THEN oldM[k].el ELSE e.appended + 1,
         r10 |-> IF k \in DOMAIN oldM THEN oldM[k].r10 ELSE 35,
         pos |-> MarkerPosition(e.projection, k)]
      label(k) ==
        [el |-> IF k \in DOMAIN oldL THEN oldL[k].el ELSE afterM + 1,
         visibility |-> IF k \in DOMAIN oldL THEN oldL[k].visibility ELSE "hidden",
         pos |-> MarkerPosition(e.projection, k)]
  IN  [e EXCEPT
         !.cityMarkers = ExitRemove([k \in keys \cup DOMAIN oldM |->
                                       IF k \in keys THEN marker(k) ELSE oldM[k]], keys),
         !.cityLabels = ExitRemove([k \in keys \cup DOMAIN oldL |->
                                      IF k \in keys THEN label(k) ELSE oldL[k]], keys),
         !.appended = IF enterL THEN afterM + 1 ELSE afterM]

\* drawCityMarkers()
drawCityMarkers(e) ==
  IF e.err THEN e
  ELSE IF e.svg.isNull \/ e.projection.isNull THEN e
  ELSE
    LET e0 == [e EXCEPT !.pass = Append(@, "markers")]
        e1 == IF e0.cityGroup THEN e0
              ELSE [e0 EXCEPT !.cityGroup = TRUE,
                              !.svgChildren = Append(@, "city-markers")]
        e2 == IF e1.tooltipGroup THEN e1
              ELSE [e1 EXCEPT !.tooltipGroup = TRUE,
                              !.svgChildren = Append(@, "city-tooltips")]
    IN  JoinMarkers(e2)

\* The country paths after the join of drawWorldMap against `features`.
JoinCountries(e, features) ==
  LET old == e.countryPaths
      keys == FeatureKeys(features)
      shape(k) ==
        [el |-> IF k \in DOMAIN old THEN old[k].el ELSE e.appended + 1,
         d |-> PathOf(e.projection)]
      merged == [k \in keys \cup DOMAIN old |->
                   IF k \in keys THEN shape(k) ELSE old[k]]
  IN  [e EXCEPT
         !.countryPaths = ExitRemove(merged, keys),
         !.appended = IF EnterKeys(old, keys) = {} THEN @ ELSE @ + 1,
         !.pass = Append(@, "basemap")]

\* drawWorldMap(): its try block has the join of the countries, then the
\* rings, then the markers; its catch block logs and swallows the exception.
drawWorldMap(e, c) ==
  IF e.err THEN e
  ELSE IF ~e.g \/ c.worldData.isNull THEN e
  ELSE
    LET e1 == JoinCountries(e, c.worldData.features)
        e2 == drawDistanceRings(e1, c)
        e3 == drawCityMarkers(e2)
    IN  [e3 EXCEPT !.err = FALSE]

\* createMap() in which a call of the try block throws after the SVG and
\* the tooltip were appended and before the projection is assigned: the
\* catch block logs and returns false.
createMapThrows(e, c) ==
  IF ~c.container THEN [e |-> e, ok |-> FALSE]
  ELSE IF SizeIsZero(c.rect) THEN [e |-> e, ok |-> FALSE]
  ELSE
    [e |-> [e EXCEPT
              !.svg = [isNull |-> FALSE, width |-> c.rect.width,
                       height |-> c.rect.height],
              !.containerSvgs = @ + 1,
              !.ringTooltip = IF @.isNull
                              THEN [NullTooltip EXCEPT !.isNull = FALSE]
                              ELSE @],
     ok |-> FALSE]

\* createMap(): the new engine and the value returned.
createMap(e, c) ==
  IF ~c.container THEN [e |-> e, ok |-> FALSE]
  ELSE IF SizeIsZero(c.rect) THEN [e |-> e, ok |-> FALSE]
  ELSE
    LET scale == getScale(c.rect, c.mode)
        e1 == [e EXCEPT
                 !.svg = [isNull |-> FALSE, width |-> c.rect.width,
                          height |-> c.rect.height],
                 !.containerSvgs = @ + 1,
                 !.ringTooltip = IF @.isNull
                                 THEN [NullTooltip EXCEPT !.isNull = FALSE]
                                 ELSE @,
                 !.projection = [isNull |-> FALSE, rotate |-> InitialRotate,
                                 translate2 |-> Center2(c.rect),
                                 scale20 |-> scale.v, scaleNaN |-> scale.nan,
                                 nullFor |-> {}],
                 !.path = TRUE,
                 !.g = TRUE,
                 !.svgChildren = <<"g">>,
                 !.zoom = TRUE,
                 !.isMapReady = TRUE]
        e2 == [e1 EXCEPT !.emitted = @ + 1, !.handed = Handed(e1)]
    IN  [e |-> e2, ok |-> TRUE]

\* Mutant of navigateToLocation: without the guard on svg and projection,
\* the calls on null throw.
navigateToLocationUnguarded(e, c, center) ==
  IF e.svg.isNull \/ e.projection.isNull \/ ~c.container
  THEN [e EXCEPT !.err = TRUE]
  ELSE
    LET scale == getScale(c.rect, c.mode)
        e1 == [e EXCEPT !.projection.rotate = RotateFor(center),
                        !.projection.translate2 = Center2(c.rect),
                        !.projection.scale20 = scale.v,
                        !.projection.scaleNaN = scale.nan]
    IN  drawCityMarkers(drawDistanceRings(UpdatePaths(e1), c))

\* navigateToLocation(center)
navigateToLocation(e, c, center) ==
  IF e.svg.isNull \/ e.projection.isNull THEN e
  ELSE IF ~c.container
  THEN \* mapContainer.value.getBoundingClientRect() of null throws
       [e EXCEPT !.err = TRUE]
  ELSE
    LET scale == getScale(c.rect, c.mode)
        e1 == [e EXCEPT !.projection.rotate = RotateFor(center),
                        !.projection.translate2 = Center2(c.rect),
                        !.projection.scale20 = scale.v,
                        !.projection.scaleNaN = scale.nan]
    IN  drawCityMarkers(drawDistanceRings(UpdatePaths(e1), c))

\* Mutant of refreshProjection: the rings are not drawn anew.
refreshProjectionSkipsRings(e, c) ==
  IF e.projection.isNull \/ ~e.g \/ ~c.container THEN e
  ELSE
    LET scale == getScale(c.rect, c.mode)
        e1 == HideTooltip(e)
        e2 == [e1 EXCEPT !.projection.translate2 = Center2(c.rect),
                         !.projection.scale20 = scale.v,
                         !.projection.scaleNaN = scale.nan]
    IN  drawCityMarkers(UpdatePaths(e2))

\* Mutant of refreshProjection: the markers are updated before the rings.
refreshProjectionMarkersFirst(e, c) ==
  IF e.projection.isNull \/ ~e.g \/ ~c.container THEN e
  ELSE
    LET scale == getScale(c.rect, c.mode)
        e1 == HideTooltip(e)
        e2 == [e1 EXCEPT !.projection.translate2 = Center2(c.rect),
                         !.projection.scale20 = scale.v,
                         !.projection.scaleNaN = scale.nan]
    IN  drawDistanceRings(drawCityMarkers(UpdatePaths(e2)), c)

\* refreshProjection()
refreshProjection(e, c) ==
  IF e.projection.isNull \/ ~e.g \/ ~c.container THEN e
  ELSE
    LET scale == getScale(c.rect, c.mode)
        e1 == HideTooltip(e)
        e2 == [e1 EXCEPT !.projection.translate2 = Center2(c.rect),
                         !.projection.scale20 = scale.v,
                         !.projection.scaleNaN = scale.nan]
    IN  drawCityMarkers(drawDistanceRings(UpdatePaths(e2), c))

\* Mutant of invalidateSize: without an svg the function goes on, and
\* svg.attr throws.
invalidateSizeWithoutSvg(e, c) ==
  IF ~c.container THEN e
  ELSE IF e.svg.isNull THEN [e EXCEPT !.err = TRUE]
  ELSE
    LET scale == getScale(c.rect, c.mode)
        e1 == [e EXCEPT !.svg.width = c.rect.width,
                        !.svg.height = c.rect.height,
                        !.projection.translate2 = Center2(c.rect),
                        !.projection.scale20 = scale.v,
                        !.projection.scaleNaN = scale.nan]
    IN  drawCityMarkers(drawDistanceRings(UpdatePaths(e1), c))

\* invalidateSize()
invalidateSize(e, c) ==
  IF e.svg.isNull \/ ~c.container THEN e
  ELSE IF e.projection.isNull
  THEN \* the svg is resized, then projection.translate of null throws
       [e EXCEPT !.svg.width = c.rect.width,
                 !.svg.height = c.rect.height,
                 !.err = TRUE]
  ELSE
    LET scale == getScale(c.rect, c.mode)
        e1 == [e EXCEPT !.svg.width = c.rect.width,
                        !.svg.height = c.rect.height,
                        !.projection.translate2 = Center2(c.rect),
                        !.projection.scale20 = scale.v,
                        !.projection.scaleNaN = scale.nan]
    IN  drawCityMarkers(drawDistanceRings(UpdatePaths(e1), c))

\* Mutant of watchRingMode: the projection is refreshed for the radius mode
\* only.
watchRingModeRadiusOnly(e, c) ==
  IF c.mode = "radius" THEN refreshProjection(HideTooltip(e), c) ELSE HideTooltip(e)

\* Mutant of watchRingMode: the callback has not run when the next task
\* starts.
watchRingModeNotFlushed(e, c) == e

\* The callback of watch(ringMode, ...)
watchRingMode(e, c) == refreshProjection(HideTooltip(e), c)

\* ringConfigurations[mode] is falsy: changeRingMode returns at once
changeRingModeIgnores(mode) == ~hasRingConfiguration(mode)

\* Mutant of DisposeEngine: the ring tooltip is left in place.
DisposeEngineKeepsTooltip(e) ==
  [e EXCEPT
     !.svg = NullSvg,
     !.svgChildren = <<>>,
     !.countryPaths = NoElements,
     !.ringCircles = NoElements,
     !.cityMarkers = NoElements,
     !.cityLabels = NoElements,
     !.projection = NullProjection,
     !.path = FALSE,
     !.zoom = FALSE,
     !.g = FALSE,
     !.ringsGroup = FALSE,
     !.cityGroup = FALSE,
     !.tooltipGroup = FALSE,
     !.containerSvgs = IF e.svg.isNull THEN @ ELSE @ - 1,
     !.isMapReady = FALSE]

\* onUnmounted(), on the engine
DisposeEngine(e) ==
  [e EXCEPT
     !.svg = NullSvg,
     !.svgChildren = <<>>,
     !.countryPaths = NoElements,
     !.ringCircles = NoElements,
     !.cityMarkers = NoElements,
     !.cityLabels = NoElements,
     !.projection = NullProjection,
     !.path = FALSE,
     !.zoom = FALSE,
     !.g = FALSE,
     !.ringsGroup = FALSE,
     !.cityGroup = FALSE,
     !.tooltipGroup = FALSE,
     !.ringTooltip = NullTooltip,
     !.containerSvgs = IF e.svg.isNull THEN @ ELSE @ - 1,
     !.isMapReady = FALSE]

\* ------------------------------------------------------------ defineStore

\* The `value` of every entry of the state's basemaps array.
basemaps == {"carto_dark"}

\* Arguments of setSelectedBasemap: the configured value, the two values of
\* the entries that are commented out, the empty string.
BasemapArgs == {"carto_dark", "carto_light", "osm", ""}

MinZoom == 1

MaxZoom == 20

\* A JavaScript value passed as zoom: a number (NaN is one), or a value of
\* another type.
ZoomNumber(v) == [type |-> "number", nan |-> FALSE, v |-> v]

ZoomNaN == [type |-> "number", nan |-> TRUE, v |-> 0]

ZoomString == [type |-> "string", nan |-> FALSE, v |-> 0]

ZoomUndefined == [type |-> "undefined", nan |-> FALSE, v |-> 0]

ZoomArgs ==
  {ZoomNumber(v) : v \in (MinZoom - 1)..(MaxZoom + 1)}
    \cup {ZoomNaN, ZoomString, ZoomUndefined}

\* A JavaScript value passed as center: an array with its elements, or a
\* value that is no array.
ArrayOf(items) == [isArray |-> TRUE, items |-> items]

NoArray == [isArray |-> FALSE, items |-> <<>>]

DefaultCenter == <<25045830, 121519720>>

CenterArgs ==
  {NoArray, ArrayOf(<<>>), ArrayOf(<<35676200>>), ArrayOf(DefaultCenter),
   ArrayOf(<<35676200, 139650300>>), ArrayOf(<<0, 0>>),
   ArrayOf(<<35676200, 139650300, 0>>)}

\* state() of the store, and whether the last action threw.
InitialStore ==
  [selectedBasemap |-> "carto_dark",
   mapView |-> [center |-> DefaultCenter, zoom |-> ZoomNumber(16)],
   thrown |-> FALSE]

\* Mutant of setSelectedBasemap: the value is stored unvalidated.
setSelectedBasemapUnchecked(st, value) ==
  [st EXCEPT !.selectedBasemap = value, !.thrown = FALSE]

\* setSelectedBasemap(value)
setSelectedBasemap(st, value) ==
  LET basemapExists == \E basemap \in basemaps : basemap = value
  IN  IF ~basemapExists
      THEN [st EXCEPT !.thrown = TRUE]
      ELSE [st EXCEPT !.selectedBasemap = value, !.thrown = FALSE]

\* zoom < 1 || zoom > 20: a comparison with NaN is false.
ZoomOutOfRange(zoom) ==
  ~zoom.nan /\ (zoom.v < MinZoom \/ zoom.v > MaxZoom)

\* setMapView(center, zoom)
setMapView(st, center, zoom) ==
  IF ~center.isArray \/ Len(center.items) # 2
  THEN [st EXCEPT !.thrown = TRUE]
  ELSE IF zoom.type # "number" \/ ZoomOutOfRange(zoom)
  THEN [st EXCEPT !.thrown = TRUE]
  ELSE [st EXCEPT !.mapView = [center |-> center.items, zoom |-> zoom],
                  !.thrown = FALSE]

\* resetMapView()
resetMapView(st) ==
  [st EXCEPT !.mapView = [center |-> DefaultCenter, zoom |-> ZoomNumber(16)],
             !.thrown = FALSE]

NullConfig == [isNull |-> TRUE, value |-> ""]

\* getCurrentBasemapConfig(): the entry found, or null.
getCurrentBasemapConfig(st) ==
  IF \E basemap \in basemaps : basemap = st.selectedBasemap
  THEN [isNull |-> FALSE, value |-> st.selectedBasemap]
  ELSE NullConfig

\* ------------------------------------------------------------ state

VARIABLES
  lifecycle,        \* of the MapTab instance: "setup", "mounted", "unmounted"
  rect,             \* what the container's getBoundingClientRect reports
  engine,           \* the engine state (see InitialEngine)
  ringMode,         \* ringMode.value
  awaiting,         \* tryCreateMap is suspended at await drawWorldMap()
  worldData,        \* worldData.value
  loadState,        \* of loadWorldData: "idle", "pending", "ok", "failed"
  attempts,         \* attempts of initMap
  retryTimer,       \* setTimeout(tryCreateMap, 100): ms left, or NoTimer
  sizingFailed,     \* tryCreateMap logged that maxAttempts was reached
  resizeObserver,   \* "none", "observing", "disconnected"
  resizeTimeout,    \* the debounce timer of the observer: ms left, or NoTimer
  mapInstance,      \* dataStore: mapInstance.value is the handle of 'map-ready'
  navTimer,         \* the timer that runs navigateToTaiwan: kind and ms left
  uncaught,         \* an exception left a handler of the component
  zeroSizeAttempts, \* createMap calls that found a zero width or height
  burst,            \* the current burst of resize notifications (see NoBurst)
  roundTrip,        \* progress of a distance -> radius -> distance switch
  defineStore       \* the state of the define store (see InitialStore)

vars ==
  <<lifecycle, rect, engine, ringMode, awaiting, worldData, loadState,
    attempts, retryTimer, sizingFailed, resizeObserver, resizeTimeout,
    mapInstance, navTimer, uncaught, zeroSizeAttempts, burst, roundTrip,
    defineStore>>

NoTimer == 0 - 1

NoNavTimer == [kind |-> "none", left |-> NoTimer]

\* No timer of navigateToTaiwan is pending: its last call has invoked
\* navigateToLocation on the stored handle.
Navigated == [kind |-> "navigated", left |-> NoTimer]

\* No timer of navigateToTaiwan is pending: navigateToLocation threw in its
\* last call, and the catch block logged the exception.
Caught == [kind |-> "caught", left |-> NoTimer]

\* No timer of navigateToTaiwan is pending: the callback of its retry timer
\* found no map instance and returned.
GaveUp == [kind |-> "gave up", left |-> NoTimer]

\* No resize notification is on record.  A burst records the number of calls
\* of the observer's callback that restarted a pending debounce timer or
\* started one (notifications), the ms since the last of them (since), the
\* runs of invalidateSize since it (invalidations) and, of these, the runs
\* that re-rendered the map (redraws).
NoBurst == [notifications |-> 0, since |-> NoTimer, invalidations |-> 0, redraws |-> 0]

\* No round trip is under way.
NoRoundTrip ==
  [stage |-> 0, viewport |-> <<0, 0>>, rotate |-> <<0, 0>>, scale20 |-> 0,
   radii |-> NoElements]

\* Mutant of HasContainer: the template ref is never cleared.
HasContainerAlways == TRUE

\* mapContainer.value is the container element
HasContainer == lifecycle = "mounted"

Context == Ctx(rect, HasContainer, ringMode, worldData)

\* The radii of the ring circles, by key.
Radii(e) == [k \in DOMAIN e.ringCircles |-> e.ringCircles[k].r]

Init ==
  /\ lifecycle = "setup"
  /\ rect = Rect(0, 0)
  /\ engine = InitialEngine
  /\ ringMode = "distance"
  /\ awaiting = FALSE
  /\ worldData = NullData
  /\ loadState = "idle"
  /\ attempts = 0
  /\ retryTimer = NoTimer
  /\ sizingFailed = FALSE
  /\ resizeObserver = "none"
  /\ resizeTimeout = NoTimer
  /\ mapInstance = FALSE
  /\ navTimer = NoNavTimer
  /\ uncaught = FALSE
  /\ zeroSizeAttempts = 0
  /\ burst = NoBurst
  /\ roundTrip = NoRoundTrip
  /\ defineStore = InitialStore

\* No microtask is queued: a task of the event loop can start.
Idle == ~awaiting

\* The engine a handler leaves behind: its exception and the record of the
\* layers its render pass updated (pass) do not outlive it.
Settled(e) == [e EXCEPT !.err = FALSE, !.pass = <<>>]

\* The engine and the store after a handler: the exception flag is
\* consumed, and the handler of 'map-ready' (HomeView's setMapInstance)
\* has stored the handle when the event was emitted.
Settle(e) ==
  /\ engine' = Settled(e)
  /\ mapInstance' = (mapInstance \/ e.emitted > engine.emitted)

\* The round-trip record after a handler that is no mode switch, given the
\* engine and the container rectangle it leaves: any change of what the
\* round trip holds fixed (the viewport and the rotation) abandons it.
KeepRoundTrip(e, r) ==
  roundTrip' =
    IF roundTrip.stage = 1
       /\ ~e.projection.isNull
       /\ e.projection.translate2 = roundTrip.viewport
       /\ e.projection.rotate = roundTrip.rotate
       /\ Center2(r) = roundTrip.viewport
    THEN roundTrip
    ELSE NoRoundTrip

\* Mutant of AttemptsExhausted: one attempt more than maxAttempts.
AttemptsExhaustedLate(a) == a > maxAttempts

\* attempts >= maxAttempts
AttemptsExhausted(a) == a >= maxAttempts

\* Mutant of tryCreateMap: the retry timer is armed after a success too.
tryCreateMapRearms(c) ==
  IF AttemptsExhausted(attempts)
  THEN /\ sizingFailed' = TRUE
       /\ retryTimer' = NoTimer
       /\ attempts' = 0
       /\ zeroSizeAttempts' = 0
       /\ UNCHANGED <<engine, mapInstance, awaiting>>
  ELSE
    LET made == createMap(engine, c)
    IN  /\ attempts' = attempts + 1
        /\ zeroSizeAttempts' =
             IF c.container /\ (c.rect.width = 0 \/ c.rect.height = 0)
             THEN zeroSizeAttempts + 1 ELSE zeroSizeAttempts
        /\ IF made.ok
           THEN /\ Settle(drawWorldMap(made.e, c))
                /\ retryTimer' = RetryDelayMs
                /\ awaiting' = TRUE
           ELSE /\ Settle(made.e)
                /\ retryTimer' = RetryDelayMs
                /\ UNCHANGED awaiting
        /\ UNCHANGED sizingFailed

\* tryCreateMap(), on the state of the component; c is what it reads.
\* `attempts` is a local of initMap that tryCreateMap closes over: it is
\* there while a call of tryCreateMap is running, suspended or scheduled,
\* and gone (0 here) once the last of them has returned.
tryCreateMap(c) ==
  IF AttemptsExhausted(attempts)
  THEN /\ sizingFailed' = TRUE
       /\ retryTimer' = NoTimer
       /\ attempts' = 0
       /\ zeroSizeAttempts' = 0
       /\ UNCHANGED <<engine, mapInstance, awaiting>>
  ELSE
    LET made == createMap(engine, c)
    IN  /\ attempts' = attempts + 1
        /\ zeroSizeAttempts' =
             IF c.container /\ (c.rect.width = 0 \/ c.rect.height = 0)
             THEN zeroSizeAttempts + 1 ELSE zeroSizeAttempts
        /\ IF made.ok
           THEN /\ Settle(drawWorldMap(made.e, c))
                /\ retryTimer' = NoTimer
                /\ awaiting' = TRUE
           ELSE /\ Settle(made.e)
                /\ retryTimer' = RetryDelayMs
                /\ UNCHANGED awaiting
        /\ UNCHANGED sizingFailed

\* Mutant of ObserverCallback: a pending timer is left to run (a throttle).
ObserverCallbackKeepsTimer ==
  /\ resizeTimeout' = IF resizeTimeout = NoTimer THEN ResizeDebounceMs ELSE resizeTimeout
  /\ burst' = [notifications |-> IF resizeTimeout = NoTimer THEN 1
                                 ELSE Min(burst.notifications + 1, MaxBurst),
               since |-> 0, invalidations |-> 0, redraws |-> 0]

\* The callback of the ResizeObserver: the debounce timer is restarted.
ObserverCallback ==
  /\ resizeTimeout' = ResizeDebounceMs
  /\ burst' = [notifications |-> IF resizeTimeout = NoTimer THEN 1
                                 ELSE Min(burst.notifications + 1, MaxBurst),
               since |-> 0, invalidations |-> 0, redraws |-> 0]

\* onMounted of MapTab (initMap starts the fetch, setupResizeObserver
\* observes the container, whose first observation is delivered if it has a
\* size), then onMounted of HomeView (setTimeout of navigateToTaiwan).
Mount ==
  /\ lifecycle = "setup"
  /\ lifecycle' = "mounted"
  /\ \E r \in ContainerRects :
       /\ rect' = r
       /\ IF r # Rect(0, 0)
          THEN ObserverCallback
          ELSE UNCHANGED <<resizeTimeout, burst>>
  /\ loadState' = "pending"
  /\ resizeObserver' = "observing"
  /\ navTimer' = [kind |-> "home", left |-> HomeViewDelayMs]
  /\ UNCHANGED <<engine, ringMode, awaiting, worldData, attempts,
                 retryTimer, sizingFailed, mapInstance, uncaught,
                 zeroSizeAttempts, roundTrip>>
  /\ UNCHANGED defineStore

\* Mutant of initMapAborts: initMap goes on whatever loadWorldData returned.
initMapNeverAborts(loaded) == FALSE

\* !loaded: initMap returns
initMapAborts(loaded) == ~loaded

\* The rest of initMap once loadWorldData has returned `loaded`, with
\* worldData.value = data.
initMapContinues(loaded, data) ==
  IF initMapAborts(loaded)
  THEN UNCHANGED <<attempts, zeroSizeAttempts, engine, mapInstance,
                   retryTimer, sizingFailed, awaiting>>
  ELSE tryCreateMap(Ctx(rect, HasContainer, ringMode, data))

\* loadWorldData resolves true: worldData is set and initMap goes on to
\* its first tryCreateMap.
LoadSucceeds ==
  /\ Idle
  /\ loadState = "pending"
  /\ loadState' = "ok"
  /\ \E fs \in LoadableCollections :
       /\ worldData' = Data(fs)
       /\ initMapContinues(TRUE, Data(fs))
  /\ KeepRoundTrip(engine', rect)
  /\ UNCHANGED <<lifecycle, rect, ringMode, resizeObserver,
                 resizeTimeout, navTimer, uncaught, burst>>
  /\ UNCHANGED defineStore

\* loadWorldData resolves false (the fetch rejected, the status was not OK,
\* or the body was no JSON): the error is logged and initMap returns.
LoadFails ==
  /\ Idle
  /\ loadState = "pending"
  /\ loadState' = "failed"
  /\ \E reason \in {"fetch rejected", "HTTP status", "JSON parse"} :
       initMapContinues(FALSE, worldData)
  /\ KeepRoundTrip(engine', rect)
  /\ UNCHANGED <<lifecycle, rect, ringMode, worldData,
                 resizeObserver, resizeTimeout, navTimer, uncaught,
                 burst>>
  /\ UNCHANGED defineStore

\* The retry timer fires: tryCreateMap()
RetryTimerFires ==
  /\ Idle
  /\ retryTimer = 0
  /\ tryCreateMap(Context)
  /\ KeepRoundTrip(engine', rect)
  /\ UNCHANGED <<lifecycle, rect, ringMode, worldData,
                 loadState, resizeObserver, resizeTimeout, navTimer, uncaught,
                 burst>>
  /\ UNCHANGED defineStore

\* The retry timer fires: tryCreateMap(), whose createMap throws inside its
\* try block unless it returns before it.
RetryTimerThrows ==
  /\ Idle
  /\ retryTimer = 0
  /\ ~AttemptsExhausted(attempts)
  /\ attempts' = attempts + 1
  /\ zeroSizeAttempts' =
       IF HasContainer /\ SizeIsZero(rect)
       THEN zeroSizeAttempts + 1 ELSE zeroSizeAttempts
  /\ Settle(createMapThrows(engine, Context).e)
  /\ retryTimer' = RetryDelayMs
  /\ KeepRoundTrip(engine', rect)
  /\ UNCHANGED <<lifecycle, rect, ringMode, worldData, awaiting, sizingFailed,
                 loadState, resizeObserver, resizeTimeout, navTimer, uncaught,
                 burst>>
  /\ UNCHANGED defineStore

\* The host lays the container element out anew, mounted or detached; the
\* observer, while it observes, calls its callback.
ContainerLayout ==
  /\ Idle
  /\ lifecycle # "setup"
  /\ \E r \in ContainerRects \ {rect} :
       /\ rect' = r
       /\ KeepRoundTrip(engine, r)
  /\ IF resizeObserver = "observing"
     THEN ObserverCallback
     ELSE UNCHANGED <<resizeTimeout, burst>>
  /\ UNCHANGED <<lifecycle, engine, ringMode, awaiting, worldData,
                 loadState, attempts, retryTimer, sizingFailed, resizeObserver,
                 mapInstance, navTimer, uncaught, zeroSizeAttempts>>
  /\ UNCHANGED defineStore

\* The debounce timer fires: invalidateSize()
ResizeTimeoutFires ==
  /\ Idle
  /\ resizeTimeout = 0
  /\ resizeTimeout' = NoTimer
  /\ LET e == invalidateSize(engine, Context)
     IN  /\ Settle(e)
         /\ uncaught' = (uncaught \/ e.err)
         /\ KeepRoundTrip(e, rect)
  /\ burst' = [burst EXCEPT
                 !.invalidations = @ + 1,
                 !.redraws = IF engine.svg.isNull \/ ~HasContainer THEN @ ELSE @ + 1]
  /\ UNCHANGED <<lifecycle, rect, ringMode, awaiting, worldData,
                 loadState, attempts, retryTimer, sizingFailed, resizeObserver,
                 navTimer, zeroSizeAttempts>>
  /\ UNCHANGED defineStore

\* Mutant of navigateToTaiwan: with a map instance it navigates and arms
\* its retry timer as well.
navigateToTaiwanRearms ==
  IF ~mapInstance
  THEN /\ navTimer' = [kind |-> "retry", left |-> NavigateRetryMs]
       /\ UNCHANGED <<engine, mapInstance>>
  ELSE /\ navTimer' = [kind |-> "retry", left |-> NavigateRetryMs]
       /\ Settle(navigateToLocation(engine, Context, taiwanCenter))

\* navigateToTaiwan() of the dataStore: without a map instance it arms its
\* retry timer; with one it calls the handle's navigateToLocation inside
\* try/catch.
navigateToTaiwan ==
  IF ~mapInstance
  THEN /\ navTimer' = [kind |-> "retry", left |-> NavigateRetryMs]
       /\ UNCHANGED <<engine, mapInstance>>
  ELSE LET e == navigateToLocation(engine, Context, taiwanCenter)
       IN  /\ navTimer' = IF e.err THEN Caught ELSE Navigated
           /\ Settle(e)

\* The timer of HomeView's onMounted fires: navigateToTaiwan()
HomeViewTimerFires ==
  /\ Idle
  /\ navTimer.kind = "home" /\ navTimer.left = 0
  /\ navigateToTaiwan
  /\ KeepRoundTrip(engine', rect)
  /\ UNCHANGED <<lifecycle, rect, ringMode, awaiting, worldData,
                 loadState, attempts, retryTimer, sizingFailed, resizeObserver,
                 resizeTimeout, uncaught, zeroSizeAttempts, burst>>
  /\ UNCHANGED defineStore

\* The retry timer of navigateToTaiwan fires: with a map instance it calls
\* navigateToTaiwan again, without one it logs and gives up.
NavigateRetryFires ==
  /\ Idle
  /\ navTimer.kind = "retry" /\ navTimer.left = 0
  /\ IF mapInstance
     THEN navigateToTaiwan
     ELSE /\ navTimer' = GaveUp
          /\ UNCHANGED <<engine, mapInstance>>
  /\ KeepRoundTrip(engine', rect)
  /\ UNCHANGED <<lifecycle, rect, ringMode, awaiting, worldData,
                 loadState, attempts, retryTimer, sizingFailed, resizeObserver,
                 resizeTimeout, uncaught, zeroSizeAttempts, burst>>
  /\ UNCHANGED defineStore

\* A caller invokes navigateToLocation(center): the public method of the
\* mounted component, or the method of the handle 'map-ready' delivered.
HostNavigate(center) ==
  /\ Idle
  /\ lifecycle = "mounted" \/ mapInstance
  /\ UNCHANGED <<lifecycle, rect, ringMode, awaiting, worldData,
                 loadState, attempts, retryTimer, sizingFailed, resizeObserver,
                 resizeTimeout, navTimer, zeroSizeAttempts, burst>>
  /\ UNCHANGED defineStore
  /\ LET e == navigateToLocation(engine, Context, center)
     IN  /\ Settle(e)
         /\ uncaught' = (uncaught \/ e.err)
         /\ KeepRoundTrip(e, rect)

\* The round-trip record after the watcher re-rendered for the new mode: a
\* switch from distance to radius, made with the viewport in step with the
\* container, opens a round trip and records the scale and the radii it
\* leaves behind; the switch back, with the container and the rotation as
\* they were, completes it.
RoundTripAfterSwitch(old, new, mode, r) ==
  IF mode = "radius" /\ ~old.projection.isNull /\ ~new.err
     /\ old.projection.translate2 = Center2(r)
  THEN [stage |-> 1, viewport |-> old.projection.translate2,
        rotate |-> old.projection.rotate,
        scale20 |-> old.projection.scale20, radii |-> Radii(old)]
  ELSE IF mode = "distance" /\ roundTrip.stage = 1 /\ ~new.err
          /\ ~new.projection.isNull
          /\ Center2(r) = roundTrip.viewport
          /\ new.projection.rotate = roundTrip.rotate
  THEN [roundTrip EXCEPT !.stage = 2]
  ELSE NoRoundTrip

\* changeRingMode(mode), and the job of watch(ringMode) that a set of
\* ringMode to another value queues: the scheduler runs it before the next
\* task, and hands an exception of the callback to the framework.
ChangeRingMode(mode) ==
  /\ Idle
  /\ lifecycle = "mounted"
  /\ IF changeRingModeIgnores(mode)
     THEN UNCHANGED <<ringMode, engine, mapInstance, roundTrip>>
     ELSE /\ ringMode' = mode
          /\ IF mode = ringMode
             THEN UNCHANGED <<engine, mapInstance, roundTrip>>
             ELSE LET e == watchRingMode(engine, Ctx(rect, HasContainer, mode, worldData))
                  IN  /\ Settle(e)
                      /\ roundTrip' = RoundTripAfterSwitch(engine, e, mode, rect)
  /\ UNCHANGED <<lifecycle, rect, awaiting, worldData, loadState, attempts,
                 retryTimer, sizingFailed, resizeObserver, resizeTimeout,
                 navTimer, uncaught, zeroSizeAttempts, burst>>
  /\ UNCHANGED defineStore

\* tryCreateMap resumes after await drawWorldMap() and returns.
TryCreateMapReturns ==
  /\ awaiting
  /\ awaiting' = FALSE
  /\ attempts' = 0
  /\ zeroSizeAttempts' = 0
  /\ UNCHANGED <<lifecycle, rect, engine, ringMode, worldData, loadState,
                 retryTimer, sizingFailed, resizeObserver, resizeTimeout,
                 mapInstance, navTimer, uncaught, burst, roundTrip>>
  /\ UNCHANGED defineStore

\* A mouseenter event is dispatched on the ring circle with key k, the
\* pointer at pt.
RingMouseEnter(k, pt) ==
  /\ Idle
  /\ lifecycle = "mounted"
  /\ k \in DOMAIN engine.ringCircles
  /\ engine' = ringMouseEnter(engine, k, pt, ringMode)
  /\ UNCHANGED <<lifecycle, rect, ringMode, awaiting, worldData, loadState,
                 attempts, retryTimer, sizingFailed, resizeObserver,
                 resizeTimeout, mapInstance, navTimer, uncaught,
                 zeroSizeAttempts, burst, roundTrip>>
  /\ UNCHANGED defineStore

\* A mousemove event is dispatched on the ring circle with key k.
RingMouseMove(k, pt) ==
  /\ Idle
  /\ lifecycle = "mounted"
  /\ k \in DOMAIN engine.ringCircles
  /\ engine' = ringMouseMove(engine, k, pt)
  /\ UNCHANGED <<lifecycle, rect, ringMode, awaiting, worldData, loadState,
                 attempts, retryTimer, sizingFailed, resizeObserver,
                 resizeTimeout, mapInstance, navTimer, uncaught,
                 zeroSizeAttempts, burst, roundTrip>>
  /\ UNCHANGED defineStore

\* A mouseleave event is dispatched on the ring circle with key k.
RingMouseLeave(k) ==
  /\ Idle
  /\ lifecycle = "mounted"
  /\ k \in DOMAIN engine.ringCircles
  /\ engine' = ringMouseLeave(engine, k)
  /\ UNCHANGED <<lifecycle, rect, ringMode, awaiting, worldData, loadState,
                 attempts, retryTimer, sizingFailed, resizeObserver,
                 resizeTimeout, mapInstance, navTimer, uncaught,
                 zeroSizeAttempts, burst, roundTrip>>
  /\ UNCHANGED defineStore

\* Mutant of Unmount: onUnmounted leaves a pending debounce timer to run.
UnmountKeepsResizeTimeout ==
  /\ Idle
  /\ lifecycle = "mounted"
  /\ lifecycle' = "unmounted"
  /\ resizeObserver' = IF resizeObserver = "observing" THEN "disconnected" ELSE resizeObserver
  /\ engine' = DisposeEngine(engine)
  /\ roundTrip' = NoRoundTrip
  /\ UNCHANGED <<rect, ringMode, awaiting, worldData, loadState,
                 attempts, retryTimer, sizingFailed, mapInstance, navTimer,
                 uncaught, zeroSizeAttempts, burst, resizeTimeout>>
  /\ UNCHANGED defineStore

\* The component is unmounted: the template ref is cleared, the watcher is
\* stopped, and onUnmounted() runs.
Unmount ==
  /\ Idle
  /\ lifecycle = "mounted"
  /\ lifecycle' = "unmounted"
  /\ resizeTimeout' = NoTimer
  /\ resizeObserver' = IF resizeObserver = "observing" THEN "disconnected" ELSE resizeObserver
  /\ engine' = DisposeEngine(engine)
  /\ roundTrip' = NoRoundTrip
  /\ UNCHANGED <<rect, ringMode, awaiting, worldData, loadState,
                 attempts, retryTimer, sizingFailed, mapInstance, navTimer,
                 uncaught, zeroSizeAttempts, burst>>
  /\ UNCHANGED defineStore

\* A timer that is pending has time left.
NotDue(t) == t = NoTimer \/ t > 0

Elapse(t) == IF t = NoTimer THEN NoTimer ELSE t - Quantum

\* Time passes: Quantum ms, while no timer is due.  A burst whose debounce
\* delay has gone by is over, and its record is dropped.
Tick ==
  /\ Idle
  /\ lifecycle # "setup"
  /\ NotDue(retryTimer) /\ NotDue(resizeTimeout) /\ NotDue(navTimer.left)
  /\ \/ retryTimer # NoTimer
     \/ resizeTimeout # NoTimer
     \/ navTimer.left # NoTimer
     \/ burst.since # NoTimer
  /\ retryTimer' = Elapse(retryTimer)
  /\ resizeTimeout' = Elapse(resizeTimeout)
  /\ navTimer' = [navTimer EXCEPT !.left = Elapse(@)]
  /\ burst' = IF burst.since = NoTimer \/ burst.since >= ResizeDebounceMs
              THEN NoBurst
              ELSE [burst EXCEPT !.since = @ + Quantum]
  /\ UNCHANGED <<lifecycle, rect, engine, ringMode, awaiting, worldData,
                 loadState, attempts, sizingFailed, resizeObserver,
                 mapInstance, uncaught, zeroSizeAttempts, roundTrip>>
  /\ UNCHANGED defineStore

\* The steps of the program whose changeRingMode is called with a mode of
\* the set modes, pointer events on the rings left aside.
Step(modes) ==
  \/ Mount
  \/ LoadSucceeds
  \/ LoadFails
  \/ RetryTimerFires
  \/ ContainerLayout
  \/ ResizeTimeoutFires
  \/ HomeViewTimerFires
  \/ NavigateRetryFires
  \/ \E center \in Centers : HostNavigate(center)
  \/ \E mode \in modes : ChangeRingMode(mode)
  \/ TryCreateMapReturns
  \/ Unmount
  \/ Tick

\* What the page can do with the two mode buttons of the template.
Next == Step(UiModes)

Spec == Init /\ [][Next]_vars

NextApi == Step(ApiModes)

SpecApi == Init /\ [][NextApi]_vars

\* The steps of a page that stays mounted and navigates through
\* navigateToTaiwan only, its changeRingMode called with any mode.
NextNavigate ==
  \/ Mount
  \/ LoadSucceeds
  \/ RetryTimerFires
  \/ ContainerLayout
  \/ ResizeTimeoutFires
  \/ HomeViewTimerFires
  \/ NavigateRetryFires
  \/ \E mode \in ApiModes : ChangeRingMode(mode)
  \/ TryCreateMapReturns
  \/ Tick

SpecNavigate == Init /\ [][NextNavigate]_vars

\* The steps of a page whose createMap may throw inside its try block, the
\* ring mode and the rotation left as they are.
NextCreate ==
  \/ Mount
  \/ LoadSucceeds
  \/ RetryTimerFires
  \/ RetryTimerThrows
  \/ ContainerLayout
  \/ ResizeTimeoutFires
  \/ HomeViewTimerFires
  \/ NavigateRetryFires
  \/ TryCreateMapReturns
  \/ Unmount
  \/ Tick

SpecCreate == Init /\ [][NextCreate]_vars

\* ------------------------------------------------------------ drawWorldMap

\* A Ready engine at rest: the dataset is loaded, the map was created for a
\* container of nonzero size and drawn, and every timer has run out.
InitJoin ==
  /\ lifecycle = "mounted"
  /\ rect \in {r \in ContainerRects : ~SizeIsZero(r)}
  /\ ringMode = "distance"
  /\ worldData \in {Data(fs) : fs \in LoadableCollections}
  /\ engine = LET c == Ctx(rect, TRUE, ringMode, worldData)
              IN  Settled(drawWorldMap(createMap(InitialEngine, c).e, c))
  /\ awaiting = FALSE
  /\ loadState = "ok"
  /\ attempts = 0
  /\ retryTimer = NoTimer
  /\ sizingFailed = FALSE
  /\ resizeObserver = "observing"
  /\ resizeTimeout = NoTimer
  /\ mapInstance = TRUE
  /\ navTimer = NoNavTimer
  /\ uncaught = FALSE
  /\ zeroSizeAttempts = 0
  /\ burst = NoBurst
  /\ roundTrip = NoRoundTrip
  /\ defineStore = InitialStore

\* drawWorldMap() runs with worldData.value holding the features fc.
DrawWorldMapWith(fc) ==
  /\ Idle
  /\ lifecycle = "mounted"
  /\ engine.appended < MaxElements
  /\ worldData' = Data(fc)
  /\ Settle(drawWorldMap(engine, Ctx(rect, HasContainer, ringMode, Data(fc))))
  /\ UNCHANGED <<lifecycle, rect, ringMode, awaiting, loadState, attempts,
                 retryTimer, sizingFailed, resizeObserver, resizeTimeout,
                 navTimer, uncaught, zeroSizeAttempts, burst, roundTrip>>
  /\ UNCHANGED defineStore

NextJoin ==
  \/ \E fc \in FeatureCollections : DrawWorldMapWith(fc)
  \/ \E center \in Centers : HostNavigate(center)

SpecJoin == InitJoin /\ [][NextJoin]_vars

\* --------------------------------------------------------- drawCityMarkers

\* drawCityMarkers() runs with a projection that returns null for the
\* coordinates of the cities of S.
DrawCityMarkersWith(S) ==
  /\ Idle
  /\ lifecycle = "mounted"
  /\ Settle(drawCityMarkers([engine EXCEPT !.projection.nullFor = S]))
  /\ UNCHANGED <<lifecycle, rect, ringMode, awaiting, worldData, loadState,
                 attempts, retryTimer, sizingFailed, resizeObserver,
                 resizeTimeout, navTimer, uncaught, zeroSizeAttempts, burst,
                 roundTrip>>
  /\ UNCHANGED defineStore

\* Mutant of markerMouseEnter: the labels are not filtered by the name of
\* the marker's city.
markerMouseEnterAllLabels(e, name) ==
  [e EXCEPT !.cityLabels = [k \in DOMAIN @ |-> [@[k] EXCEPT !.visibility = "visible"]],
            !.cityMarkers[name].r10 = 50]

\* The mouseenter handler of the marker of the city `name`: the labels of
\* that name become visible and the marker's r becomes 5.
markerMouseEnter(e, name) ==
  [e EXCEPT !.cityLabels = [k \in DOMAIN @ |->
                              IF k = name THEN [@[k] EXCEPT !.visibility = "visible"]
                              ELSE @[k]],
            !.cityMarkers[name].r10 = 50]

\* The mouseleave handler of the marker of the city `name`: the labels of
\* that name become hidden and the marker's r becomes 3.5.
markerMouseLeave(e, name) ==
  [e EXCEPT !.cityLabels = [k \in DOMAIN @ |->
                              IF k = name THEN [@[k] EXCEPT !.visibility = "hidden"]
                              ELSE @[k]],
            !.cityMarkers[name].r10 = 35]

\* A mouseenter event is dispatched on the marker of the city `name`.
MarkerMouseEnter(name) ==
  /\ Idle
  /\ lifecycle = "mounted"
  /\ name \in DOMAIN engine.cityMarkers
  /\ engine' = markerMouseEnter(engine, name)
  /\ UNCHANGED <<lifecycle, rect, ringMode, awaiting, worldData, loadState,
                 attempts, retryTimer, sizingFailed, resizeObserver,
                 resizeTimeout, mapInstance, navTimer, uncaught,
                 zeroSizeAttempts, burst, roundTrip>>
  /\ UNCHANGED defineStore

\* A mouseleave event is dispatched on the marker of the city `name`.
MarkerMouseLeave(name) ==
  /\ Idle
  /\ lifecycle = "mounted"
  /\ name \in DOMAIN engine.cityMarkers
  /\ engine' = markerMouseLeave(engine, name)
  /\ UNCHANGED <<lifecycle, rect, ringMode, awaiting, worldData, loadState,
                 attempts, retryTimer, sizingFailed, resizeObserver,
                 resizeTimeout, mapInstance, navTimer, uncaught,
                 zeroSizeAttempts, burst, roundTrip>>
  /\ UNCHANGED defineStore

\* The renders of a Ready engine whose projection may return null, and the
\* pointer events of its markers.
NextMarkers ==
  \/ \E S \in SUBSET CityNames : DrawCityMarkersWith(S)
  \/ \E name \in CityNames : MarkerMouseEnter(name)
  \/ \E name \in CityNames : MarkerMouseLeave(name)
  \/ \E center \in Centers : HostNavigate(center)
  \/ \E mode \in UiModes : ChangeRingMode(mode)
  \/ ContainerLayout
  \/ ResizeTimeoutFires
  \/ Tick

SpecMarkers == InitJoin /\ [][NextMarkers]_vars

\* ------------------------------------------------------------ ring hover

\* The ring circles events are dispatched on: the innermost ring and the
\* boundary ring.
HoverRings == {0, BoundaryIndex}

\* Positions of the pointer relative to the container.
PointerPoints == {<<150, 90>>}

\* A Ready engine under navigation, mode switches, resizes and the pointer
\* events of the rings, dispatched in any order.
NextHover ==
  \/ \E center \in Centers : HostNavigate(center)
  \/ \E mode \in UiModes : ChangeRingMode(mode)
  \/ ContainerLayout
  \/ ResizeTimeoutFires
  \/ Tick
  \/ \E k \in HoverRings, pt \in PointerPoints : RingMouseEnter(k, pt)
  \/ \E k \in HoverRings, pt \in PointerPoints : RingMouseMove(k, pt)
  \/ \E k \in HoverRings : RingMouseLeave(k)

SpecHover == InitJoin /\ [][NextHover]_vars

\* ------------------------------------------------------------ ready handler

\* createMap() whose 'map-ready' handler, besides storing the handle, calls
\* navigateToLocation(center) on it before createMap returns.
createMapNavigating(e, c, center) ==
  LET made == createMap(e, c)
  IN  IF made.ok
      THEN [e |-> navigateToLocation(made.e, c, center), ok |-> TRUE]
      ELSE made

\* A Ready engine at rest after its first draw, whose 'map-ready' handler
\* only stored the handle or also navigated to a center.
InitLayers ==
  /\ lifecycle = "mounted"
  /\ rect \in {r \in ContainerRects : ~SizeIsZero(r)}
  /\ ringMode \in UiModes
  /\ worldData \in {Data(fs) : fs \in LoadableCollections}
  /\ LET c == Ctx(rect, TRUE, ringMode, worldData)
     IN  \/ engine = Settled(drawWorldMap(createMap(InitialEngine, c).e, c))
         \/ \E center \in Centers :
              engine = Settled(drawWorldMap(
                         createMapNavigating(InitialEngine, c, center).e, c))
  /\ awaiting = FALSE
  /\ loadState = "ok"
  /\ attempts = 0
  /\ retryTimer = NoTimer
  /\ sizingFailed = FALSE
  /\ resizeObserver = "observing"
  /\ resizeTimeout = NoTimer
  /\ mapInstance = TRUE
  /\ navTimer = NoNavTimer
  /\ uncaught = FALSE
  /\ zeroSizeAttempts = 0
  /\ burst = NoBurst
  /\ roundTrip = NoRoundTrip
  /\ defineStore = InitialStore

\* Navigation, resize and mode-change events on a Ready engine.
NextLayers ==
  \/ \E center \in Centers : HostNavigate(center)
  \/ \E mode \in UiModes : ChangeRingMode(mode)
  \/ ContainerLayout
  \/ ResizeTimeoutFires
  \/ Tick

SpecLayers == InitLayers /\ [][NextLayers]_vars

\* ------------------------------------------------------------ store actions

\* The variables of the MapTab instance and of the data store.
componentVars ==
  <<lifecycle, rect, engine, ringMode, awaiting, worldData, loadState,
    attempts, retryTimer, sizingFailed, resizeObserver, resizeTimeout,
    mapInstance, navTimer, uncaught, zeroSizeAttempts, burst, roundTrip>>

SetSelectedBasemap(value) ==
  /\ defineStore' = setSelectedBasemap(defineStore, value)
  /\ UNCHANGED componentVars

SetMapView(center, zoom) ==
  /\ defineStore' = setMapView(defineStore, center, zoom)
  /\ UNCHANGED componentVars

ResetMapView ==
  /\ defineStore' = resetMapView(defineStore)
  /\ UNCHANGED componentVars

\* The actions of the define store, called in any order with any argument.
NextStore ==
  \/ \E value \in BasemapArgs : SetSelectedBasemap(value)
  \/ \E center \in CenterArgs, zoom \in ZoomArgs : SetMapView(center, zoom)
  \/ ResetMapView

SpecStore == Init /\ [][NextStore]_vars

\* ------------------------------------------------------------ properties

\* The rendered layers show the loaded dataset, the rings and the markers.
LayersDrawn ==
  /\ ~worldData.isNull
  /\ DOMAIN engine.countryPaths = FeatureKeys(worldData.features)
  /\ Cardinality(DOMAIN engine.ringCircles) = Len(radiiKm(ringMode)) + 1
  /\ DOMAIN engine.cityMarkers = CityNames
  /\ DOMAIN engine.cityLabels = CityNames

\* A step that runs tryCreateMap.
TryCreateMapStep == LoadSucceeds \/ RetryTimerFires

\* tryCreateMap has just created the map on its attempt number `attempts`.
ReadyOnAttempt ==
  /\ awaiting
  /\ engine.isMapReady
  /\ engine.emitted = 1
  /\ mapInstance
  /\ LayersDrawn
  /\ retryTimer = NoTimer
  /\ ~sizingFailed

\* C1: with the dataset loaded, a tryCreateMap that finds the container
\* with a nonzero width and height after N - 1 attempts that found a zero
\* width or height, N <= maxAttempts, makes the engine Ready on attempt N
\* (isMapReady, one 'map-ready' event, basemap, rings and markers drawn),
\* and the engine becomes Ready in no other way: at that moment attempts is
\* N, one more than the attempts that found a zero size.
C1_SizingRetrySuccess ==
  [][/\ (/\ TryCreateMapStep
         /\ HasContainer
         /\ ~(rect.width = 0 \/ rect.height = 0)
         /\ attempts < maxAttempts
         /\ zeroSizeAttempts = attempts)
        => (/\ ReadyOnAttempt'
            /\ attempts' = attempts + 1
            /\ zeroSizeAttempts' = attempts)
     /\ (engine'.isMapReady /\ ~engine.isMapReady)
        => (/\ TryCreateMapStep
            /\ ReadyOnAttempt'
            /\ attempts' = zeroSizeAttempts' + 1
            /\ attempts' \in 1..maxAttempts)]_vars

\* C1 witness: the map was created on the last attempt the bound allows,
\* after maxAttempts - 1 attempts that found a zero size.
C1_Witness ==
  /\ ReadyOnAttempt
  /\ attempts = maxAttempts
  /\ zeroSizeAttempts = maxAttempts - 1

\* C2: createMap is attempted at most maxAttempts times; a container that
\* reported a zero size on maxAttempts attempts leaves the engine not Ready
\* with no 'map-ready' event; the failure is reported (sizingFailed) with no
\* exception, and once it is reported no retry timer is pending or scheduled
\* again and the engine never becomes Ready.
C2_SizingRetryExhaustion ==
  [][/\ attempts' <= maxAttempts
     /\ zeroSizeAttempts' <= attempts'
     /\ zeroSizeAttempts' = maxAttempts
          => (~engine'.isMapReady /\ engine'.emitted = 0 /\ ~uncaught')
     /\ (zeroSizeAttempts = maxAttempts /\ RetryTimerFires)
          => (sizingFailed' /\ retryTimer' = NoTimer /\ engine' = engine /\ ~uncaught')
     /\ sizingFailed'
          => (/\ retryTimer' = NoTimer
              /\ ~engine'.isMapReady
              /\ engine'.emitted = 0
              /\ engine'.svg.isNull
              /\ ~uncaught')
     /\ sizingFailed => (sizingFailed' /\ attempts' = attempts)]_vars

\* C2 witness: the failure was reported for a mounted container that still
\* has a zero size, and time has gone by since.
C2_Witness ==
  /\ sizingFailed
  /\ lifecycle = "mounted"
  /\ SizeIsZero(rect)
  /\ navTimer.left = NoTimer /\ navTimer.kind # "none"

\* C3: once loadWorldData has failed no createMap is attempted, no retry
\* timer is started, there is no SVG, no projection and no dataset, the
\* engine is not Ready and has emitted no 'map-ready', no exception has
\* left a handler, and the load stays failed.
C3_LoadFailureTerminal ==
  [][/\ loadState' = "failed"
          => (/\ attempts' = 0
              /\ zeroSizeAttempts' = 0
              /\ retryTimer' = NoTimer
              /\ ~sizingFailed'
              /\ ~awaiting'
              /\ worldData'.isNull
              /\ engine'.svg.isNull
              /\ engine'.projection.isNull
              /\ ~engine'.isMapReady
              /\ engine'.emitted = 0
              /\ ~mapInstance'
              /\ ~uncaught')
     /\ loadState = "failed" => loadState' = "failed"]_vars

\* C3 witness: the load has failed for a mounted container of nonzero size,
\* and all timers have run out.
C3_Witness ==
  /\ loadState = "failed"
  /\ lifecycle = "mounted"
  /\ ~SizeIsZero(rect)
  /\ navTimer.left = NoTimer /\ navTimer.kind # "none"
  /\ resizeTimeout = NoTimer
  /\ burst.invalidations = 1
\* The rectangle of the container, as the pair navigateToLocation halves.
ViewportCenter2 == <<rect.width, rect.height>>

\* A step in which navigateToLocation(center) runs.
NavigatesTo(center) ==
  \/ HostNavigate(center)
  \/ (center = taiwanCenter /\ mapInstance
      /\ (HomeViewTimerFires \/ NavigateRetryFires))

\* C4: in a Ready state, navigateToLocation(center) sets the rotation to
\* [-longitude, -latitude] and the translate to half the width and height
\* of the container rectangle of that moment, so that the projection maps
\* center to the center of the viewport.
C4_NavigateCentersViewport ==
  [][\A center \in Centers :
       (NavigatesTo(center) /\ engine.isMapReady)
         => (/\ ~engine'.projection.isNull
             /\ engine'.projection.rotate = <<0 - center[1], 0 - center[2]>>
             /\ engine'.projection.translate2 = ViewportCenter2
             /\ ProjectsTo(Project(engine'.projection, center),
                           rect.width, rect.height))]_vars

\* C4 witness: a Ready engine was navigated to Tokyo in the tall container.
C4_Witness ==
  /\ engine.isMapReady
  /\ rect = Rect(60, 200)
  /\ engine.projection.rotate = <<0 - Tokyo[1], 0 - Tokyo[2]>>
  /\ engine.projection.translate2 = <<60, 200>>

\* C5: navigateToLocation called while there is no SVG or no projection, and
\* navigateToTaiwan run while no map instance is stored, leave the engine
\* (projection, layers, isMapReady) and ringMode as they are and raise no
\* exception.
C5_NavigationBeforeReady ==
  [][/\ \A center \in Centers :
          (HostNavigate(center) /\ (engine.svg.isNull \/ engine.projection.isNull))
            => (engine' = engine /\ ringMode' = ringMode /\ uncaught' = uncaught)
     /\ ((HomeViewTimerFires \/ NavigateRetryFires) /\ ~mapInstance)
            => (/\ engine' = engine
                /\ ringMode' = ringMode
                /\ uncaught' = uncaught
                /\ ~mapInstance')]_vars

\* C5 witness: navigateToTaiwan ran without a map instance (its retry is
\* pending) on an engine that has created nothing.
C5_Witness ==
  /\ navTimer.kind = "retry"
  /\ ~mapInstance
  /\ engine = InitialEngine
  /\ lifecycle = "mounted"

\* C6: changeRingMode with any argument other than 'distance' and 'radius'
\* changes neither ringMode nor the engine and raises nothing, and ringMode
\* is 'distance' or 'radius' in every state.
C6_InvalidModeIgnored ==
  [][/\ \A mode \in ApiModes \ {"distance", "radius"} :
          ChangeRingMode(mode)
            => (ringMode' = ringMode /\ engine' = engine /\ uncaught' = uncaught)
     /\ ringMode' \in {"distance", "radius"}]_vars

\* C7: a switch of the ring mode from distance to radius and back, made on a
\* Ready engine whose container size and rotation stay as they were, leaves
\* the projection scale and the radii of the nine rings as they were before
\* the first switch.
C7_ModeRoundTrip ==
  roundTrip.stage = 2
    => (/\ ringMode = "distance"
        /\ ~engine.projection.isNull
        /\ ~engine.projection.scaleNaN
        /\ engine.projection.scale20 = roundTrip.scale20
        /\ Radii(engine) = roundTrip.radii
        /\ DOMAIN roundTrip.radii = (0..7) \cup {BoundaryIndex})

\* C7 witness: a round trip was completed on a map of positive scale.
C7_Witness ==
  /\ roundTrip.stage = 2
  /\ roundTrip.scale20 > 0
  /\ engine.isMapReady

\* C8: whenever the ring layer exists, the ring circles are those of the
\* active mode, one per ring spec (keys 0 .. n-1, each with the mode's
\* value), and the boundary ring (key 999): n + 1 circles, none of the
\* other mode.
C8_RingCount ==
  engine.ringsGroup
    => LET n == Len(radiiKm(ringMode))
           keys == DOMAIN engine.ringCircles
       IN  /\ Cardinality(keys) = n + 1
           /\ keys = (0..(n - 1)) \cup {BoundaryIndex}
           /\ engine.ringCircles[BoundaryIndex].datum.type = "boundary"
           /\ \A k \in keys \ {BoundaryIndex} :
                /\ engine.ringCircles[k].datum.type = ringMode
                /\ engine.ringCircles[k].datum.originalValue = radiiKm(ringMode)[k + 1]

\* C8 witness: the rings of the radius mode, after a mode switch, a
\* navigation to Tokyo and a resize re-render.
C8_Witness ==
  /\ engine.ringsGroup
  /\ ringMode = "radius"
  /\ engine.projection.rotate = <<0 - Tokyo[1], 0 - Tokyo[2]>>
  /\ burst.redraws = 1

\* C9: invalidateSize runs for a burst of resize notifications only when
\* ResizeDebounceMs have gone by since the last notification of the burst,
\* and then once: none runs earlier, the timer pending after a notification
\* is due ResizeDebounceMs after it, and when that time is over for a
\* mounted component exactly one run has happened, which re-rendered the map
\* if the engine was Ready.
C9_ResizeDebounce ==
  [][/\ burst'.invalidations <= 1
     /\ burst'.redraws <= burst'.invalidations
     /\ burst'.invalidations = 1 => burst'.since = ResizeDebounceMs
     /\ resizeTimeout' # NoTimer
          => (burst'.since # NoTimer /\ resizeTimeout' = ResizeDebounceMs - burst'.since)
     /\ ResizeTimeoutFires
          => (/\ burst.since = ResizeDebounceMs
              /\ burst.invalidations = 0
              /\ burst'.invalidations = 1
              /\ burst'.notifications = burst.notifications
              /\ engine.isMapReady => burst'.redraws = 1)
     /\ (Tick /\ burst.since = ResizeDebounceMs /\ lifecycle = "mounted")
          => burst.invalidations = 1]_vars

\* C9 witness: a burst of more than one notification has led to one run of
\* invalidateSize, which re-rendered the map.
C9_Witness ==
  /\ burst.notifications >= 2
  /\ burst.invalidations = 1
  /\ burst.redraws = 1

\* C10: after drawWorldMap has run with a feature collection, the country
\* shapes are one per feature key of the collection: the shape of a key that
\* is no longer there is removed, a new key has a new element, and a key
\* that stays keeps its element, with its path evaluated anew.
C10_BasemapReconciliation ==
  [][\A fc \in FeatureCollections :
       DrawWorldMapWith(fc)
         => LET old == engine.countryPaths
                new == engine'.countryPaths
                keys == FeatureKeys(fc)
            IN  /\ DOMAIN new = keys
                /\ Cardinality(DOMAIN new) = Cardinality(fc)
                /\ \A k \in DOMAIN old \ keys : k \notin DOMAIN new
                /\ \A k \in keys \cap DOMAIN old :
                     /\ new[k].el = old[k].el
                     /\ new[k].d = PathOf(engine'.projection)
                /\ \A k \in keys \ DOMAIN old :
                     /\ new[k].el \notin {old[j].el : j \in DOMAIN old}
                     /\ new[k].el > engine.appended
                     /\ new[k].d = PathOf(engine'.projection)]_vars

\* C10 witness: of the three shapes first drawn one is left with its
\* element, next to the shape of a key that came back in a later run.
C10_Witness ==
  /\ DOMAIN engine.countryPaths = {"TWN", "JPN"}
  /\ worldData.features = {FeatTWN, FeatJPN}
  /\ engine.countryPaths["TWN"].el = 1
  /\ engine.countryPaths["JPN"].el > 1
\* C11: 'map-ready' is emitted at most once in the life of the component,
\* whatever retries, resizes, navigations and mode changes happen: the
\* number of events never exceeds one and, once one was emitted, no step
\* emits another.
C11_ReadyNotificationOnce ==
  [][/\ engine'.emitted <= 1
     /\ engine'.emitted >= engine.emitted
     /\ engine.emitted = 1 => engine'.handed = engine.handed]_vars

\* C11 witness: one event was emitted, and since then the mode was switched,
\* the map navigated to Tokyo and re-rendered for a resize, and time went by.
C11_Witness ==
  /\ engine.emitted = 1
  /\ engine.isMapReady
  /\ ~awaiting
  /\ ringMode = "radius"
  /\ engine.projection.rotate = <<0 - Tokyo[1], 0 - Tokyo[2]>>
  /\ burst.redraws = 1
  /\ navTimer.left = NoTimer /\ navTimer.kind # "none"

\* C12: when the handler of 'map-ready' runs, the projection exists and the
\* first draw is complete: the country paths of the dataset, the nine rings
\* and the markers are rendered.
C12_BootstrapOrdering ==
  engine.emitted > 0
    => (/\ engine.handed.projection
        /\ engine.handed.countries = FeatureKeys(worldData.features)
        /\ Cardinality(engine.handed.rings) = Len(radiiKm("distance")) + 1
        /\ engine.handed.markers = CityNames)
\* Nothing of the engine is left: no SVG and no element of it, no tooltip
\* element, every reference null, isMapReady false.
Released(e) ==
  /\ e.svg.isNull
  /\ e.svgChildren = <<>>
  /\ DOMAIN e.countryPaths = {}
  /\ DOMAIN e.ringCircles = {}
  /\ DOMAIN e.cityMarkers = {}
  /\ DOMAIN e.cityLabels = {}
  /\ e.projection.isNull
  /\ ~e.path
  /\ ~e.zoom
  /\ ~e.g
  /\ ~e.ringsGroup
  /\ ~e.cityGroup
  /\ ~e.tooltipGroup
  /\ e.ringTooltip.isNull
  /\ ~e.isMapReady

\* C13: from whatever state the component is unmounted, after onUnmounted
\* the SVG and the ring tooltip are removed, every reference of the engine
\* is null, isMapReady is false, the observer no longer observes and its
\* debounce timer is cleared.
C13_DisposalReleases ==
  [][Unmount
       => (/\ Released(engine')
           /\ resizeObserver' = "disconnected"
           /\ resizeTimeout' = NoTimer)]_vars

\* C13 witness: a Ready engine in the radius mode with a pending debounce
\* timer was disposed.
C13_Witness ==
  /\ lifecycle = "unmounted"
  /\ Released(engine)
  /\ engine.emitted = 1
  /\ ringMode = "radius"
  /\ resizeObserver = "disconnected"
  /\ burst.since = 0

\* C14: once onUnmounted has run, whatever follows (the load completing,
\* pending sizing retries, navigation through the handle the host kept,
\* timers), the component stays unmounted with nothing of the engine
\* created again: no SVG, projection or group, isMapReady false, no
\* 'map-ready' emitted, no debounce timer, no exception.
C14_DisposalIrreversible ==
  [][lifecycle = "unmounted"
       => (/\ lifecycle' = "unmounted"
           /\ Released(engine')
           /\ engine'.emitted = engine.emitted
           /\ mapInstance' = mapInstance
           /\ resizeTimeout' = NoTimer
           /\ resizeObserver' = resizeObserver
           /\ uncaught' = uncaught)]_vars

\* C14 witness: the component was unmounted before the map was created,
\* with a container of nonzero size, and the load completed afterwards.
C14_Witness ==
  /\ lifecycle = "unmounted"
  /\ loadState = "ok"
  /\ ~SizeIsZero(rect)
  /\ engine.emitted = 0
  /\ attempts > zeroSizeAttempts

\* C15: after onUnmounted has run no createMap attempt is made: the attempt
\* counter does not grow.
C15_TeardownCancelsRetry ==
  [][lifecycle = "unmounted" => attempts' <= attempts]_vars
\* The three layers of e are rendered with the parameters its projection
\* has: every country path with the path of the projection, every ring
\* centered on the translate with the radius its value has at the scale,
\* every marker and label at the projection of its city.
LayersConsistent(e, mode) ==
  /\ \A k \in DOMAIN e.countryPaths :
       e.countryPaths[k].d = PathOf(e.projection)
  /\ \A k \in DOMAIN e.ringCircles :
       /\ e.ringCircles[k].cx2 = e.projection.translate2[1]
       /\ e.ringCircles[k].cy2 = e.projection.translate2[2]
       /\ e.ringCircles[k].r =
            IF k = BoundaryIndex
            THEN (e.projection.scale20 * PiTimes10000) \div 200
            ELSE RingRadius(e.projection.scale20, radiiKm(mode)[k + 1], mode)
  /\ \A k \in DOMAIN e.cityMarkers :
       e.cityMarkers[k].pos = Project(e.projection, cityLocations[k])
  /\ \A k \in DOMAIN e.cityLabels :
       e.cityLabels[k].pos = Project(e.projection, cityLocations[k])

\* C16: in every state of a Ready engine (after the first draw and after
\* every navigation, resize re-render and mode-change re-render) the three
\* layers are all drawn, and drawn with the same projection parameters: the
\* rings are centered on the translate the paths and markers use, and their
\* radii come from the scale of the basemap.
C16_LayerConsistency ==
  engine.isMapReady => (LayersDrawn /\ LayersConsistent(engine, ringMode))

\* C16 witness: a Ready engine in the radius mode, navigated to Tokyo and
\* re-rendered for the tall container after a resize.
C16_Witness ==
  /\ engine.isMapReady
  /\ LayersDrawn
  /\ ringMode = "radius"
  /\ engine.projection.rotate = <<0 - Tokyo[1], 0 - Tokyo[2]>>
  /\ engine.svg.width = 60
  /\ engine.projection.translate2 = <<60, 200>>
  /\ burst.redraws = 1

\* C17: in every Ready state the projection scale is a number greater
\* than zero.
C17_ScalePositive ==
  engine.isMapReady
    => (~engine.projection.scaleNaN /\ engine.projection.scale20 > 0)

\* C18: in every Ready state the SVG has a width and a height greater than
\* zero, and so has the rectangle the translate was computed from.
C18_ViewportPositive ==
  engine.isMapReady
    => (/\ engine.svg.width > 0
        /\ engine.svg.height > 0
        /\ engine.projection.translate2[1] > 0
        /\ engine.projection.translate2[2] > 0)

\* A step that re-renders for a new projection or a new ring mode.
Reprojects ==
  \/ ringMode' # ringMode
  \/ \E center \in Centers : NavigatesTo(center)
  \/ ResizeTimeoutFires
  \/ TryCreateMapStep

\* C20: the ring tooltip is never visible at the end of a step that changes
\* the ring mode or re-renders for a navigation, a resize or the first draw;
\* it is visible after a step only if the step was the mouseenter that
\* shows it, or it was visible before and the step changed neither the
\* projection nor the ring mode.
C20_NoStaleTooltip ==
  [][(~engine'.ringTooltip.isNull /\ engine'.ringTooltip.opacity = 1)
       => (/\ ~Reprojects
           /\ \/ \E k \in HoverRings, pt \in PointerPoints : RingMouseEnter(k, pt)
              \/ (/\ engine.ringTooltip.opacity = 1
                  /\ engine'.projection = engine.projection
                  /\ ringMode' = ringMode))]_vars

\* C20 witness: in the radius mode, a tooltip that was visible has been
\* hidden by a re-render, and no ring was entered since.
C20_Witness ==
  /\ engine.isMapReady
  /\ ringMode = "radius"
  /\ engine.ringTooltip.swept
  /\ engine.ringTooltip.opacity = 0

\* A marker of which a part is painted inside the viewport of the SVG: its
\* center is a known point of the screen and its disc meets the rectangle
\* from (0, 0) to (width, height).
MarkerPainted(m, svg) ==
  /\ ~m.pos.nan
  /\ m.pos.scale20 = 0 \/ IsOrigin(m.pos.at)
  /\ svg.width > 0 /\ svg.height > 0
  /\ 10 * m.pos.x2 + 2 * m.r10 > 0
  /\ 10 * m.pos.x2 - 2 * m.r10 < 20 * svg.width
  /\ 10 * m.pos.y2 + 2 * m.r10 > 0
  /\ 10 * m.pos.y2 - 2 * m.r10 < 20 * svg.height

\* The marker layer did not fail in a render with null projections, and the
\* markers and labels of the other cities are at their projected points.
NullMarkersTolerated ==
  /\ ~uncaught
  /\ \A k \in DOMAIN engine.cityMarkers \ engine.projection.nullFor :
       /\ engine.cityMarkers[k].pos = Project(engine.projection, cityLocations[k])
       /\ engine.cityLabels[k].pos = Project(engine.projection, cityLocations[k])

\* C19: a marker whose projection returns null does not break the marker
\* layer, is painted nowhere inside the viewport, and leaves the other
\* markers at their projected points.
C19_NullMarkerOffScreen ==
  /\ NullMarkersTolerated
  /\ \A k \in DOMAIN engine.cityMarkers \cap engine.projection.nullFor :
       ~MarkerPainted(engine.cityMarkers[k], engine.svg)

ValidMapView(center, zoom) ==
  /\ center.isArray /\ Len(center.items) = 2
  /\ zoom.type = "number" /\ ~zoom.nan
  /\ zoom.v >= MinZoom /\ zoom.v <= MaxZoom

\* C22: a setMapView call whose center is no array of exactly two elements
\* or whose zoom is no number within 1..20 throws and leaves mapView as it
\* was; after every step mapView.zoom is a number within 1..20 and
\* mapView.center has exactly two elements.
C22_MapViewAlwaysValid ==
  [][/\ \A center \in CenterArgs, zoom \in ZoomArgs :
          (SetMapView(center, zoom) /\ ~ValidMapView(center, zoom))
            => (/\ defineStore'.thrown
                /\ defineStore'.mapView = defineStore.mapView)
     /\ ValidMapView(ArrayOf(defineStore'.mapView.center),
                     defineStore'.mapView.zoom)]_vars

\* The children of the svg from bottom to top: the group of the country
\* paths, of the rings, of the markers, of the marker labels.
LayerStack == <<"g", "distance-rings", "city-markers", "city-tooltips">>

\* The layers in the order a render pass updates them.
RenderOrder == <<"basemap", "rings", "markers">>

\* A render pass from the engine e left the groups stacked in order and
\* updated the layers in order.
RendersInOrder(e) ==
  /\ e.svgChildren = LayerStack
  /\ e.pass = RenderOrder

\* C23: from the first draw on the svg holds the four groups stacked
\* basemap, rings, markers, marker labels, and every render pass that can
\* start (a navigation, a resize re-render, a mode-change re-render, a
\* redraw of the dataset) updates basemap, then rings, then markers.
C23_LayerStackingOrder ==
  (engine.isMapReady /\ HasContainer)
    => (/\ engine.svgChildren = LayerStack
        /\ \A center \in Centers :
             RendersInOrder(navigateToLocation(engine, Context, center))
        /\ RendersInOrder(invalidateSize(engine, Context))
        /\ \A mode \in UiModes :
             RendersInOrder(watchRingMode(engine,
                              Ctx(rect, HasContainer, mode, worldData)))
        /\ RendersInOrder(drawWorldMap(engine, Context)))

\* C23 witness: the 'map-ready' handler navigated to Tokyo before the first
\* basemap draw, so the rings and markers were created before the country
\* paths; the map was since switched to the radius mode and resized.
C23_Witness ==
  /\ engine.isMapReady
  /\ \E k \in DOMAIN engine.countryPaths, i \in DOMAIN engine.ringCircles :
       engine.ringCircles[i].el < engine.countryPaths[k].el
  /\ ringMode = "radius"
  /\ burst.redraws = 1

\* min(width - 64, height - 64) times 1.05 in distance mode and times 0.6 in
\* radius mode, times 20.
DerivedScale20(r, mode) ==
  LET inner == IF r.width <= r.height THEN r.width - 64 ELSE r.height - 64
  IN  IF mode = "distance" THEN inner * 21 ELSE inner * 12

\* C24: getScale returns min(width - 64, height - 64) times the factor of
\* the mode for every container rectangle and both modes, and every step
\* that updates the projection (creation, navigation, resize re-render, mode
\* change) leaves it with that value for the container rectangle and the
\* ring mode of the moment: a projection with another scale is one that
\* the step neither changed nor re-rendered.
C24_ScaleDerivation ==
  [][/\ \A r \in ContainerRects, mode \in UiModes :
          getScale(r, mode) = Num(DerivedScale20(r, mode))
     /\ (/\ ~engine'.projection.isNull
         /\ \/ engine'.projection.scaleNaN
            \/ engine'.projection.scale20 # DerivedScale20(rect', ringMode'))
          => (engine'.projection = engine.projection /\ ~Reprojects)]_vars

\* C24 witness: a map created in distance mode in the 400 x 260 container
\* was switched to radius mode and then re-rendered for the narrow
\* container.
C24_Witness ==
  /\ engine.isMapReady
  /\ ringMode = "radius"
  /\ rect = Rect(60, 200)
  /\ burst.redraws = 1
  /\ engine.projection.scale20 = (60 - 64) * 12

\* C25: in every Ready state every metric ring of the active mode lies
\* inside the viewport: its radius is at most half the smaller side of the
\* SVG (radii in thousandths of a pixel).
C25_RingsOnCanvas ==
  engine.isMapReady
    => \A k \in DOMAIN engine.ringCircles \ {BoundaryIndex} :
         2 * engine.ringCircles[k].r
           <= 1000 * Min(engine.svg.width, engine.svg.height)

\* C26: a navigateToLocation call in a Ready state changes the rotation
\* only: no step that changes the scale or the translate of a Ready
\* engine's projection is a run of navigateToLocation.
C26_NavigationRotatesOnly ==
  [][(/\ engine.isMapReady
      /\ \/ engine'.projection.translate2 # engine.projection.translate2
         \/ engine'.projection.scale20 # engine.projection.scale20
         \/ engine'.projection.scaleNaN # engine.projection.scaleNaN)
       => ~(\E center \in Centers : NavigatesTo(center))]_vars

\* The elements of a selection: each key with the element bound to it.
ElementsOf(sel) == {<<k, sel[k].el>> : k \in DOMAIN sel}

\* The rendered elements of the four selections of an engine.
Rendered(e) ==
  [countries |-> ElementsOf(e.countryPaths),
   rings |-> ElementsOf(e.ringCircles),
   markers |-> ElementsOf(e.cityMarkers),
   labels |-> ElementsOf(e.cityLabels)]

\* C27: from the first draw on no navigation, resize re-render or mode
\* change removes or appends an element: every step between two Ready
\* states leaves the country paths, ring circles, markers and labels the
\* same elements under the same keys, and appends nothing.
C27_IncrementalUpdate ==
  [][(engine.isMapReady /\ engine'.isMapReady)
       => (/\ Rendered(engine') = Rendered(engine)
           /\ engine'.appended = engine.appended)]_vars

\* C27 witness: the elements of the first draw after a navigation to Tokyo,
\* a switch to the radius mode and a resize re-render.
C27_Witness ==
  /\ engine.isMapReady
  /\ engine.projection.rotate = RotateFor(Tokyo)
  /\ ringMode = "radius"
  /\ burst.redraws = 1
  /\ engine.svg.width = 60
  /\ Cardinality(Rendered(engine).rings) = Len(radiiKm("radius")) + 1
  /\ Cardinality(Rendered(engine).markers) = Cardinality(CityNames)
  /\ Rendered(engine).countries # {}

\* The boundary ring of the engine is drawn: a circle with key 999 of radius
\* scale * pi whose datum is of type boundary and that takes no pointer
\* events.
BoundaryRingDrawn(e) ==
  /\ BoundaryIndex \in DOMAIN e.ringCircles
  /\ e.ringCircles[BoundaryIndex].datum.type = "boundary"
  /\ e.ringCircles[BoundaryIndex].r = BoundaryRadius(e.projection.scale20)
  /\ e.ringCircles[BoundaryIndex].pointerEvents = "none"

\* A mouseenter, mousemove or mouseleave event is dispatched on the boundary
\* ring.
BoundaryPointerEvent ==
  \/ \E pt \in PointerPoints : RingMouseEnter(BoundaryIndex, pt)
  \/ \E pt \in PointerPoints : RingMouseMove(BoundaryIndex, pt)
  \/ RingMouseLeave(BoundaryIndex)

\* C28: in both ring modes the boundary ring (key 999, radius scale * pi) is
\* present whenever rings have been rendered, and no pointer event on it
\* (enter, move, leave) makes the tooltip visible or changes the content or
\* the position of the tooltip.
C28_BoundaryRingInert ==
  /\ [](engine.ringCircles # NoElements => BoundaryRingDrawn(engine))
  /\ [][BoundaryPointerEvent
         => /\ engine'.ringTooltip.html = engine.ringTooltip.html
            /\ engine'.ringTooltip.position = engine.ringTooltip.position
            /\ engine'.ringTooltip.opacity = 1
                 => engine.ringTooltip.opacity = 1]_vars

\* C28 witness: in the radius mode the handler of a pointer event of the
\* boundary ring has run while the tooltip of another ring was visible.
C28_Witness ==
  /\ ringMode = "radius"
  /\ BoundaryRingDrawn(engine)
  /\ engine.lastRing = BoundaryIndex
  /\ engine.ringTooltip.opacity = 1
  /\ engine.ringTooltip.html.label # ""

\* The label of the city k is visible.
LabelVisible(e, k) == e.cityLabels[k].visibility = "visible"

\* C29: after the first draw every label is hidden; a label becomes visible
\* only by a mouseenter on the marker of its own city and hidden again only
\* by a mouseleave on that marker; a label is visible exactly when the marker
\* of its city is enlarged (r = 5, otherwise 3.5); a step that is no pointer
\* event of the marker, re-renders included, changes neither the visibility
\* of the label nor the radius of the marker.
C29_MarkerHoverPairing ==
  /\ \A k \in CityNames : ~LabelVisible(engine, k)
  /\ [](\A k \in DOMAIN engine.cityMarkers :
           /\ engine.cityMarkers[k].r10 \in {35, 50}
           /\ LabelVisible(engine, k) <=> engine.cityMarkers[k].r10 = 50)
  /\ [][\A k \in CityNames :
           /\ MarkerMouseEnter(k) => LabelVisible(engine', k)
           /\ MarkerMouseLeave(k) => ~LabelVisible(engine', k)
           /\ (~MarkerMouseEnter(k) /\ ~MarkerMouseLeave(k))
                => /\ LabelVisible(engine', k) <=> LabelVisible(engine, k)
                   /\ engine'.cityMarkers[k].r10 = engine.cityMarkers[k].r10]_vars

\* C29 witness: after a navigation to Tokyo and a resize re-render in the
\* radius mode, the label of Tokyo is visible above its enlarged marker and
\* the label of Taipei is hidden.
C29_Witness ==
  /\ engine.projection.rotate = RotateFor(Tokyo)
  /\ ringMode = "radius"
  /\ burst.redraws = 1
  /\ LabelVisible(engine, "Tokyo")
  /\ engine.cityMarkers["Tokyo"].r10 = 50
  /\ ~LabelVisible(engine, "Taipei")
  /\ engine.cityMarkers["Taipei"].r10 = 35

\* C30: a debounced resize callback that fires before the map is created
\* changes nothing and throws nothing, and the first draw that follows takes
\* the size of the SVG, the translation and the scale of the projection from
\* the rectangle of the container at the moment of the creation.
C30_ResizeBeforeReady ==
  /\ [][(ResizeTimeoutFires /\ engine.svg.isNull)
         => (engine' = engine /\ uncaught' = uncaught)]_vars
  /\ [][(~engine.isMapReady /\ engine'.isMapReady)
         => /\ TryCreateMapStep
            /\ rect' = rect
            /\ engine'.svg.width = rect.width
            /\ engine'.svg.height = rect.height
            /\ engine'.projection.translate2 = Center2(rect)
            /\ engine'.projection.scale20 = DerivedScale20(rect, ringMode)]_vars

\* C30 witness: the map has just been created for the 400 x 260 container
\* after the debounced callback of a burst of resize notifications fired
\* without a map; no resize re-render has run.
C30_Witness ==
  /\ ReadyOnAttempt
  /\ burst.invalidations = 1
  /\ burst.redraws = 0
  /\ rect = Rect(400, 260)
  /\ engine.svg.width = 400
  /\ engine.projection.scale20 = DerivedScale20(rect, ringMode)

\* C31: once onUnmounted has run, no debounce timer is pending and the
\* observer delivers nothing, whether a timer was pending at that moment or
\* the container is laid out anew afterwards: invalidateSize never runs in
\* an unmounted component.
C31_TeardownStopsResize ==
  /\ [](lifecycle = "unmounted"
          => (resizeTimeout = NoTimer /\ resizeObserver # "observing"))
  /\ [][lifecycle = "unmounted"
         => (/\ ~ResizeTimeoutFires
             /\ resizeTimeout' = NoTimer
             /\ burst'.invalidations <= burst.invalidations)]_vars

\* C31 witness: the component was unmounted less than ResizeDebounceMs
\* after the last resize notification, before invalidateSize ran for it;
\* the timer is gone and the observer is disconnected.
C31_Witness ==
  /\ lifecycle = "unmounted"
  /\ resizeObserver = "disconnected"
  /\ resizeTimeout = NoTimer
  /\ burst.notifications >= 1
  /\ burst.since # NoTimer
  /\ burst.since < ResizeDebounceMs
  /\ burst.invalidations = 0

\* C32: the map is never Ready with the chain of navigateToTaiwan at its
\* end without a navigation: while the engine is Ready, either a timer of
\* navigateToTaiwan is still pending or navigateToLocation(taiwanCenter) has
\* been invoked on the stored handle.  (navigateToTaiwan is called by the
\* timer of HomeView's onMounted and by its own retry timer only, so a chain
\* that gave up never navigates.)
C32_InitialNavigation ==
  engine.isMapReady => navTimer.kind \in {"home", "retry", "navigated", "caught"}

\* A callback of the chain of navigateToTaiwan runs: the timer of HomeView
\* or the retry timer.
NavigateToTaiwanRuns == HomeViewTimerFires \/ NavigateRetryFires

\* C33: a call of navigateToTaiwan that finds no map instance arms one retry
\* timer of NavigateRetryMs and touches nothing else; the retry that still
\* finds none gives up and arms nothing; a call that finds an instance ends
\* the chain with one invocation of navigateToLocation, whose exception is
\* caught; a chain that has ended stays ended and a pending retry is never
\* re-armed, so one call leads to at most one invocation; no callback of the
\* chain lets an exception escape.
C33_BoundedNavigateRetry ==
  [][/\ (HomeViewTimerFires /\ ~mapInstance)
          => (/\ navTimer' = [kind |-> "retry", left |-> NavigateRetryMs]
              /\ engine' = engine)
     /\ (NavigateRetryFires /\ ~mapInstance)
          => (navTimer' = GaveUp /\ engine' = engine)
     /\ (NavigateToTaiwanRuns /\ mapInstance)
          => navTimer' \in {Navigated, Caught}
     /\ NavigateToTaiwanRuns => uncaught' = uncaught
     /\ navTimer \in {Navigated, Caught, GaveUp} => navTimer' = navTimer
     /\ navTimer.kind = "retry"
          => (/\ navTimer'.kind # "home"
              /\ navTimer'.kind = "retry" => navTimer'.left <= navTimer.left)]_vars

\* C33 witness: navigateToLocation threw inside navigateToTaiwan (the ring
\* mode is a key that ringConfigurations inherits), the exception was
\* caught, no exception has left a handler and no timer of the chain is
\* pending.
C33_Witness ==
  /\ navTimer = Caught
  /\ ringMode \in InheritedKeys
  /\ ~uncaught
  /\ engine.isMapReady

\* The container rectangle the projection was last set up for: the one
\* whose center is the translation of the projection.
LastUsedRect(e) == Rect(e.projection.translate2[1], e.projection.translate2[2])

\* C34: in every Ready state (the callback of the ringMode watcher runs
\* within the step that sets ringMode, so none is pending in a state) the
\* scale of the projection is getScale of the last-used container rectangle
\* and the current ringMode, and the ring circles carry the data and radii
\* of the current ringMode at that scale, also when the mode was changed
\* before the map was created.
C34_ModeScaleRingAgreement ==
  engine.isMapReady =>
    /\ getScale(LastUsedRect(engine), ringMode) =
         [nan |-> engine.projection.scaleNaN, v |-> engine.projection.scale20]
    /\ DOMAIN engine.ringCircles = DOMAIN RingData(engine.projection.scale20, ringMode)
    /\ \A k \in DOMAIN engine.ringCircles :
         /\ engine.ringCircles[k].datum = RingData(engine.projection.scale20, ringMode)[k]
         /\ engine.ringCircles[k].r = engine.ringCircles[k].datum.radiusPx

\* C34 witness: the map has just been created in the radius mode, which was
\* chosen before the creation, and its rings are those of the radius mode.
C34_Witness ==
  /\ ReadyOnAttempt
  /\ ringMode = "radius"
  /\ engine.projection.scale20 = DerivedScale20(rect, "radius")
  /\ engine.ringCircles[0].datum.type = "radius"

\* C35: every step that updates the projection (creation, navigation, mode
\* change, resize re-render) leaves the SVG with the width and the height
\* of the rectangle whose center is the translation of the projection.
C35_SvgMatchesViewport ==
  [][(engine'.projection # engine.projection /\ ~engine'.projection.isNull)
       => (/\ ~engine'.svg.isNull
           /\ engine'.projection.translate2
                = Center2(Rect(engine'.svg.width, engine'.svg.height)))]_vars

\* The ring tooltip is shown.
TooltipShown(e) == ~e.ringTooltip.isNull /\ e.ringTooltip.opacity = 1

\* A step that runs drawDistanceRings on the drawn map for a navigation, a
\* resize or a change of the ring mode.
RingsRerendered ==
  \/ ringMode' # ringMode
  \/ ResizeTimeoutFires
  \/ \E center \in Centers : HostNavigate(center)

\* C36: the ring tooltip goes from hidden to shown only by a mouseenter on
\* a ring that is not the boundary ring; every ring mouseleave and every
\* re-render of the rings leaves it hidden; a mousemove never changes
\* whether it is shown, so a tooltip hidden by a re-render stays hidden
\* under mousemove events until the next mouseenter.
C36_TooltipTwoStates ==
  [][/\ (TooltipShown(engine') /\ ~TooltipShown(engine))
          => \E k \in HoverRings \ {BoundaryIndex}, pt \in PointerPoints :
               RingMouseEnter(k, pt)
     /\ TooltipShown(engine')
          => (/\ ~\E k \in HoverRings : RingMouseLeave(k)
              /\ ~RingsRerendered)
     /\ (TooltipShown(engine') # TooltipShown(engine))
          => ~\E k \in HoverRings, pt \in PointerPoints : RingMouseMove(k, pt)]_vars

\* C36 witness: a re-render hid the tooltip that ring 0 had shown, and since
\* then the only pointer events were mousemove events on ring 0: the
\* tooltip is still hidden.
C36_Witness ==
  /\ engine.ringTooltip.swept
  /\ ~TooltipShown(engine)
  /\ engine.lastRing = 0
  /\ engine.ringTooltip.html.label # ""

\* The content the mouseenter handler writes for the ring idx (1-based) of
\* a mode: label, value and unit of the mode's configuration, with the
\* "1/10" suffix in the radius mode only.
TooltipHtml(mode, idx) ==
  [label |-> names(mode)[idx], value |-> radiiKm(mode)[idx],
   unit |-> unit(mode), tenth |-> mode = "radius"]

\* C37: whenever the mouseenter handler of a ring runs, the datum bound to
\* the ring is the one drawDistanceRings produces for the current ringMode,
\* and the content of the tooltip is always that of one ring of one mode:
\* label, value and unit of a mode never come with the text format of the
\* other.
C37_NoModeHoverRace ==
  /\ [](engine.ringTooltip.html # NoHtml
          => \E mode \in UiModes :
               \E idx \in 1..Len(radiiKm(mode)) :
                 engine.ringTooltip.html = TooltipHtml(mode, idx))
  /\ [][\A k \in HoverRings \ {BoundaryIndex} :
          (\E pt \in PointerPoints : RingMouseEnter(k, pt))
            => (/\ engine.ringCircles[k].datum
                    = RingData(engine.projection.scale20, ringMode)[k]
                /\ engine'.ringTooltip.html = TooltipHtml(ringMode, k + 1))]_vars

\* C37 witness: after a mode change to radius, ring 0 shows the tooltip of
\* the first ring of the radius mode.
C37_Witness ==
  /\ ringMode = "radius"
  /\ TooltipShown(engine)
  /\ engine.lastRing = 0
  /\ engine.ringTooltip.html = TooltipHtml("radius", 1)

\* C38: the container holds at most one SVG of the engine at every moment,
\* also after a createMap that failed inside its try block and the retry
\* that follows, and none once the component is unmounted.
C38_SingleSvg ==
  /\ engine.containerSvgs <= 1
  /\ lifecycle = "unmounted" => engine.containerSvgs = 0

====
